---- MODULE Spec2Model ----
(***************************************************************************)
(* Asynchronous profile-enrichment service: the Flask handlers of          *)
(* scraper/app.py (submit, status, cache clear), the background task       *)
(* process_profile_task, and the Redis helpers of utils/redis_client.py.   *)
(*                                                                         *)
(* Text.  A Python str is a sequence of tokens (<<>> is ""); lower() maps  *)
(* tokens through lower_token and strip() trims SPACE tokens.              *)
(* Values.  A JSON scalar of the request body is Str(s) or None; a key     *)
(* that is absent is absent from the DOMAIN of the dict.  A value parsed   *)
(* from an AI reply is tagged with its JSON shape (JDict / JList).         *)
(***************************************************************************)
EXTENDS Integers, Sequences, FiniteSets, TLC

VARIABLES
    store,      \* Redis: key -> [value, ttl]; a key not in the DOMAIN is absent
    pc,         \* per job_id: where its background thread stands
    args,       \* per job_id: the (cache_key, data) its thread was started with
    local,      \* per job_id: the thread's pipeline outcome (enriched_schema or exception)
    work,       \* per job_id: what its thread holds while the pipeline gathers content
    handler,    \* per job_id: the submit handler that drew it, between its cache lookup and its response
    hist,       \* per job_id: the job-record/cache writes issued for it and its thread start, in order
    next_id,    \* the next fresh uuid4
    resp,       \* the HTTP response returned in the latest step, with the store calls of its handler; NoResp when that step returned none
    undisturbed,\* job_ids whose Result Cache write was accepted and not deleted or expired since
    invalidated,\* cache keys a cache clear was answered 200 for, until the next submit of that key (kept by SpecInvalidate)
    stub        \* collaborator behaviours installed for the run (the set the providers and the AI draw from)

vars == <<store, pc, args, local, work, handler, hist, next_id, resp, undisturbed, invalidated, stub>>

-----------------------------------------------------------------------------
(* Bounds *)

MaxJobs == 2

JobIds == 1..MaxJobs

-----------------------------------------------------------------------------
(* Python text and values *)

SPACE == " "

lower_token(t) ==
    CASE t = "Ann" -> "ann"
      [] t = "LEE" -> "lee"
      [] t = "Lee" -> "lee"
      [] t = "Bob" -> "bob"
      [] t = "Ray" -> "ray"
      [] t = "LinkedIn.com" -> "linkedin.com"
      [] t = "ANN" -> "ann"
      [] t = "Ann@X.com" -> "ann@x.com"
      [] t = "GitHub.com" -> "github.com"
      [] t = "M" -> "m"
      [] t = "Engineer" -> "engineer"
      [] t = "Acme" -> "acme"
      [] t = "UofT" -> "uoft"
      [] t = "BSc" -> "bsc"
      [] t = "Someone" -> "someone"
      [] t = "Else" -> "else"
      [] t = "Builder" -> "builder"
      [] OTHER -> t

str_lower(s) == [i \in 1..Len(s) |-> lower_token(s[i])]

RECURSIVE str_lstrip(_)
str_lstrip(s) == IF s # <<>> /\ Head(s) = SPACE THEN str_lstrip(Tail(s)) ELSE s

RECURSIVE str_rstrip(_)
str_rstrip(s) ==
    IF s # <<>> /\ s[Len(s)] = SPACE THEN str_rstrip(SubSeq(s, 1, Len(s) - 1)) ELSE s

str_strip(s) == str_rstrip(str_lstrip(s))

None == [t |-> "none"]

Str(s) == [t |-> "str", s |-> s]

\* Python truthiness of a body value: None and "" are falsy
truthy(v) == v.t = "str" /\ v.s # <<>>

\* d.get(k): None when the key is absent
dict_get(d, k) == IF k \in DOMAIN d THEN d[k] ELSE None

\* d.get(k, default): the default only when the key is absent (a null stays None)
dict_get_default(d, k, default) == IF k \in DOMAIN d THEN d[k] ELSE default

\* d[k] = v
dict_set(d, k, v) == (k :> v) @@ d

\* f"{v}" of a body value
fstr(v) == IF v.t = "none" THEN <<"None">> ELSE v.s

\* a body value as it is copied into a result: text as text, a null as None
plain(v) == IF v.t = "str" THEN v.s ELSE v

JDict(d) == [t |-> "dict", v |-> d]

JList(l) == [t |-> "list", v |-> l]

EmptyDict == [x \in {} |-> <<>>]

\* the outcome of a call that may raise
Return(v) == [raised |-> FALSE, value |-> v]

Raise(msg) == [raised |-> TRUE, error |-> msg]

-----------------------------------------------------------------------------
(* utils/redis_client.py: keys and TTLs *)

CACHE_TTL == 604800

JOB_TTL == 86400

KEY_PREFIX_JOB == "job:"

KEY_PREFIX_CACHE == "cache:"

KEY_PREFIX_URL == "url:"

KEY_PREFIX_SEARCH == "search:"

IdentityFields == {"firstName", "lastName", "linkedin", "email"}

\* hashlib.sha256(text)[:16], taken as collision-free: the digest stands for its input
sha256_16(text) == [sha256 |-> text]

\* json.dumps(value): the text that json.loads turns back into value
json_dumps(value) == [json |-> value]

json_loads(text) == text.json

\* a key taken from the identity fields as they were sent
generate_cache_key_verbatim(candidate_profile) ==
    Return(<<KEY_PREFIX_CACHE,
             sha256_16(json_dumps(
                 [f \in IdentityFields |->
                     dict_get_default(candidate_profile, f, Str(<<>>)).s]))>>)

\* a key that also covers the github field
generate_cache_key_with_github(candidate_profile) ==
    Return(<<KEY_PREFIX_CACHE,
             sha256_16(json_dumps(
                 [f \in IdentityFields \cup {"github"} |->
                     str_strip(str_lower(
                         dict_get_default(candidate_profile, f, Str(<<>>)).s))]))>>)

\* generate_cache_key: .get(f, '').lower().strip() of the four identity fields;
\* a field that is present but null raises AttributeError
generate_cache_key(candidate_profile) ==
    IF \E f \in IdentityFields :
           f \in DOMAIN candidate_profile /\ candidate_profile[f].t # "str"
    THEN Raise(<<"'NoneType' object has no attribute 'lower'">>)
    ELSE Return(<<KEY_PREFIX_CACHE,
                  sha256_16(json_dumps(
                      [f \in IdentityFields |->
                          str_strip(str_lower(
                              dict_get_default(candidate_profile, f, Str(<<>>)).s))]))>>)

\* a job key that does not depend on the job_id
job_key_shared(job_id) == <<KEY_PREFIX_JOB, 1>>

job_key(job_id) == <<KEY_PREFIX_JOB, job_id>>

\* client.setex(key, ttl, text)
setex(s, key, ttl, text) ==
    [k \in DOMAIN s \cup {key} |-> IF k = key THEN [value |-> text, ttl |-> ttl] ELSE s[k]]

\* a delete that takes every key of the namespace of key
delete_namespace(s, key) == [k \in {x \in DOMAIN s : x[1] # key[1]} |-> s[k]]

\* client.delete(key)
delete(s, key) == [k \in DOMAIN s \ {key} |-> s[k]]

\* a lookup that drops what it read and falls through to `return None`
get_cached_result_dropped(s, cache_key, ok) == None

\* get_cached_result(cache_key) when the store answers (ok) or raises (~ok)
get_cached_result(s, cache_key, ok) ==
    IF ok /\ cache_key \in DOMAIN s THEN json_loads(s[cache_key].value) ELSE None

\* a lookup that reads the record of the first job whatever the job_id
get_job_status_first(s, job_id, ok) ==
    IF ok /\ job_key(1) \in DOMAIN s THEN json_loads(s[job_key(1)].value) ELSE None

\* get_job_status(job_id)
get_job_status(s, job_id, ok) ==
    IF ok /\ job_key(job_id) \in DOMAIN s THEN json_loads(s[job_key(job_id)].value) ELSE None

\* a cache write that serialises the result and never stores it
set_cached_result_unsaved(s, cache_key, result, ok) == s

\* set_cached_result(cache_key, result): the store after the call
set_cached_result(s, cache_key, result, ok) ==
    IF ok THEN setex(s, cache_key, CACHE_TTL, json_dumps(JDict(result))) ELSE s

\* the job_data dict set_job_status builds (result / error only when given)
job_data(status, cache_key, result, error) ==
    LET base == [status |-> status, cache_key |-> cache_key]
        with_result == IF result # None THEN dict_set(base, "result", result.v) ELSE base
    IN  IF error # None THEN dict_set(with_result, "error", error.s) ELSE with_result

\* a status write stored with the cache TTL
set_job_status_cache_ttl(s, job_id, status, cache_key, result, error, ok) ==
    IF ok
    THEN setex(s, job_key(job_id), CACHE_TTL,
               json_dumps(JDict(job_data(status, cache_key, result, error))))
    ELSE s

\* a status write that keeps the time a record of the job has left
set_job_status_keep_ttl(s, job_id, status, cache_key, result, error, ok) ==
    IF ok
    THEN setex(s, job_key(job_id),
               IF job_key(job_id) \in DOMAIN s THEN s[job_key(job_id)].ttl ELSE JOB_TTL,
               json_dumps(JDict(job_data(status, cache_key, result, error))))
    ELSE s

\* set_job_status(job_id, status, cache_key, result, error): the store after the call
set_job_status(s, job_id, status, cache_key, result, error, ok) ==
    IF ok
    THEN setex(s, job_key(job_id), JOB_TTL, json_dumps(JDict(job_data(status, cache_key, result, error))))
    ELSE s

\* generate_url_cache_key: the hash of url.lower().strip()
generate_url_cache_key(url) == <<KEY_PREFIX_URL, sha256_16(str_strip(str_lower(url)))>>

\* get_cached_url(url): the stored text, None when the key is absent, the
\* stored text is "" (`if result') or the store raises
get_cached_url(s, url, ok) ==
    IF ok /\ generate_url_cache_key(url) \in DOMAIN s /\ s[generate_url_cache_key(url)].value # <<>>
    THEN Str(s[generate_url_cache_key(url)].value) ELSE None

\* a URL write that reaches the store even when the call raised
set_cached_url_unguarded(s, url, content, ok) ==
    setex(s, generate_url_cache_key(url), CACHE_TTL, content)

\* set_cached_url(url, content): the store after the call (the text is stored as it is)
set_cached_url(s, url, content, ok) ==
    IF ok THEN setex(s, generate_url_cache_key(url), CACHE_TTL, content) ELSE s

\* generate_search_cache_key: the hash of f"{query.lower().strip()}:{limit}"
generate_search_cache_key(query, limit) ==
    <<KEY_PREFIX_SEARCH, sha256_16(str_strip(str_lower(query)) \o <<":", limit>>)>>

\* get_cached_search(query, limit): json.loads of the stored text (never empty)
get_cached_search(s, query, limit, ok) ==
    IF ok /\ generate_search_cache_key(query, limit) \in DOMAIN s
    THEN json_loads(s[generate_search_cache_key(query, limit)].value) ELSE None

\* set_cached_search(query, limit, results): the store after the call
set_cached_search(s, query, limit, results, ok) ==
    IF ok THEN setex(s, generate_search_cache_key(query, limit), CACHE_TTL, json_dumps(JList(results)))
    ELSE s

-----------------------------------------------------------------------------
(* schemas/schema_builder.py *)

RequiredGroups == {"basics", "professional_dna", "personal_dna", "identity_mapping_vitals"}

get_empty_schema ==
    [basics |->
        [name |-> <<>>, current_occupation |-> <<>>,
         location |-> [city |-> <<>>, remote_preference |-> FALSE],
         profiles |-> <<>>, identity_tags |-> <<>>],
     professional_dna |->
        [experience |-> <<>>,
         skills |-> [hard_skills |-> <<>>, soft_skills |-> <<>>, tools |-> <<>>]],
     personal_dna |->
        [education |-> <<>>, projects |-> <<>>,
         hobbies_and_interests |-> [active_pursuits |-> <<>>, intellectual_interests |-> <<>>],
         volunteering |-> <<>>],
     identity_mapping_vitals |->
        [communication_style |-> <<>>, value_alignment |-> <<>>, career_trajectory |-> <<>>],
     extra |-> <<>>]

\* job.get(k, default) on an entry of jobHistory / education (plain text values)
entry_get(e, k, default) == IF k \in DOMAIN e THEN e[k] ELSE default

build_experience(job) ==
    [company |-> entry_get(job, "companyName", <<>>),
     title |-> entry_get(job, "jobTitle", <<>>),
     duration |-> entry_get(job, "startDate", <<>>) \o <<" - ">> \o entry_get(job, "endDate", <<"Present">>),
     impact_metrics |-> <<>>,
     cultural_context |-> <<>>,
     description |-> entry_get(job, "description", <<>>)]

build_education(edu) ==
    [institution |-> entry_get(edu, "institution", <<>>),
     degree |-> entry_get(edu, "degree", <<>>),
     focus |-> entry_get(edu, "fieldOfStudy", <<>>),
     description |-> entry_get(edu, "description", <<>>),
     duration |-> entry_get(edu, "startDate", <<>>) \o <<" - ">> \o entry_get(edu, "endDate", <<"Present">>)]

build_profile(candidate_profile, field, platform) ==
    IF truthy(dict_get(candidate_profile, field))
    THEN <<[platform |-> platform, url |-> dict_get(candidate_profile, field).s, bio_summary |-> <<>>]>>
    ELSE <<>>

\* the seed name: f"{firstName} {lastName}".strip()
seed_name(candidate_profile) ==
    str_strip(fstr(dict_get_default(candidate_profile, "firstName", Str(<<>>)))
              \o <<SPACE>>
              \o fstr(dict_get_default(candidate_profile, "lastName", Str(<<>>))))

build_initial_schema_from_input(candidate_profile, job_history, education) ==
    LET experiences == [i \in 1..Len(job_history) |-> build_experience(job_history[i])]
        education_list == [i \in 1..Len(education) |-> build_education(education[i])]
        profiles == build_profile(candidate_profile, "linkedin", "LinkedIn")
                    \o build_profile(candidate_profile, "github", "GitHub")
                    \o build_profile(candidate_profile, "twitter", "Twitter")
                    \o build_profile(candidate_profile, "portfolio", "Portfolio")
        current_occupation == IF experiences # <<>> THEN experiences[1].title ELSE <<>>
    IN  [basics |->
            [name |-> seed_name(candidate_profile),
             current_occupation |-> current_occupation,
             location |-> [city |-> <<>>, remote_preference |-> FALSE],
             profiles |-> profiles,
             identity_tags |-> <<>>,
             phone |-> plain(dict_get_default(candidate_profile, "phone", Str(<<>>))),
             extra_links |-> dict_get_default(candidate_profile, "extraLinks", <<>>)],
         professional_dna |->
            [experience |-> experiences,
             skills |-> [hard_skills |-> <<>>, soft_skills |-> <<>>, tools |-> <<>>],
             skills_raw |-> plain(dict_get_default(candidate_profile, "skills", Str(<<>>))),
             experience_raw |-> plain(dict_get_default(candidate_profile, "experience", Str(<<>>)))],
         personal_dna |->
            [education |-> education_list, projects |-> <<>>,
             hobbies_and_interests |-> [active_pursuits |-> <<>>, intellectual_interests |-> <<>>],
             volunteering |-> <<>>],
         identity_mapping_vitals |->
            [communication_style |-> <<>>, value_alignment |-> <<>>, career_trajectory |-> <<>>],
         extra |-> <<>>]

-----------------------------------------------------------------------------
(* The AI collaborator: gemini_client.models.generate_content.  A reply     *)
(* either raises or carries text; parses_at says which parse attempt of the *)
(* caller reads the text as JSON (1: json.loads as is, 2: after the         *)
(* backslash fix, 3: after the regex clean-up, 0: none), value what it      *)
(* reads.                                                                   *)

AiRaise == [raises |-> TRUE, parses_at |-> 0, value |-> None]

AiText(parses_at, value) == [raises |-> FALSE, parses_at |-> parses_at, value |-> value]

DefaultResumeInfo ==
    JDict([nicknames |-> <<>>, links |-> <<>>, usernames |-> <<>>, legal_name |-> <<>>])

\* ai/gemini_service.py extract_nicknames_and_links_from_resume: json.loads(response.text),
\* whatever its shape; the default dict on any exception
extract_nicknames_and_links_from_resume(reply) ==
    IF reply.raises \/ reply.parses_at # 1 THEN DefaultResumeInfo ELSE reply.value

\* an except clause that forgets to return the initial schema
enrich_schema_no_fallback(initial_schema, reply) ==
    IF reply.raises \/ reply.parses_at = 0 THEN None ELSE reply.value

\* enrich_schema_with_crawled_content, lines 218-242: three parse attempts, the
\* initial schema on any exception; the parsed value is returned whatever its shape
enrich_schema_with_crawled_content(initial_schema, reply) ==
    IF reply.raises \/ reply.parses_at = 0 THEN JDict(initial_schema) ELSE reply.value

\* generate_extra_description: response.text, "" on any exception
generate_extra_description(reply) ==
    IF reply.raises THEN <<>> ELSE reply.value


-----------------------------------------------------------------------------
(* utils/url_utils.py.  A URL is text whose tokens are a scheme, "www.", a  *)
(* host, "/" and path words.                                                *)

\* re.search(r'(?:https?://)?(?:www\.)?<host>/', url, re.IGNORECASE): both
\* prefixes are optional and search is unanchored, so it finds "<host>/" anywhere
contains_host_slash(url, host) ==
    \E i \in 1..(Len(url) - 1) : lower_token(url[i]) = host /\ url[i + 1] = "/"

is_linkedin_url(url) == contains_host_slash(url, "linkedin.com")

is_github_url(url) == contains_host_slash(url, "github.com")

Words == {"ann", "bob", "in", "blog"}

\* re.match(r'(?:https?://)?(?:www\.)?(twitter|x)\.com/([a-zA-Z0-9_]+)/?$', url):
\* the username, <<>> for no match (None)
extract_twitter_username(url) ==
    LET a == IF url # <<>> /\ Head(url) \in {"https://", "http://"} THEN Tail(url) ELSE url
        b == IF a # <<>> /\ Head(a) = "www." THEN Tail(a) ELSE a
    IN  IF /\ Len(b) \in {3, 4}
           /\ b[1] \in {"twitter.com", "x.com"}
           /\ b[2] = "/"
           /\ b[3] \in Words
           /\ (Len(b) = 4 => b[4] = "/")
        THEN <<b[3]>>
        ELSE <<>>

\* is_twitter_url(url): one of the two anchored patterns matches
is_twitter_url(url) == extract_twitter_username(url) # <<>>

-----------------------------------------------------------------------------
(* The pipeline's collaborators.  One behaviour of the outside world names, *)
(* for each collaborator the task calls, what it does when called.          *)

ResumeText == <<"resume", "text">>

PageText == <<"page", "text">>

ExtraText == <<"a", "narrative">>

BlogUrl == <<"https://", "blog.dev", "/", "ann">>

FoundLink == <<"https://", "ann.dev">>

SearchHit == [url |-> BlogUrl, title |-> <<"blog">>, content |-> PageText]

GithubHit == [url |-> <<"https://", "github.com", "/", "ann">>, title |-> <<"ann">>, content |-> PageText]

ResumeInfoFound ==
    JDict([nicknames |-> <<>>, links |-> <<FoundLink>>, usernames |-> <<<<"ann">>>>,
           legal_name |-> <<"Ann", SPACE, "Lee">>])

\* what the resume-extraction AI call replies
resume_reply(kind) ==
    CASE kind = "raise" -> AiRaise
      [] kind = "dict"  -> AiText(1, ResumeInfoFound)
      [] kind = "list"  -> AiText(1, JList(<<>>))

\* what the query-generation AI call replies
queries_reply(kind) ==
    CASE kind = "raise" -> AiRaise
      [] kind = "list"  -> AiText(1, JList(<<<<"ann", "hobbies">>, <<"ann", "blog">>>>))
      [] kind = "dict"  -> AiText(1, JDict(EmptyDict))

OtherName == <<"Someone", SPACE, "Else">>

\* what the synthesis AI call replies to a prompt holding initial_schema
enrich_reply(kind, initial_schema) ==
    CASE kind = "raise" -> AiRaise
      [] kind = "empty_text" -> AiText(0, None)
      [] kind = "object_full" ->
            AiText(1, JDict([initial_schema EXCEPT
                                !.basics.identity_tags = <<<<"Builder">>>>,
                                !.extra = ExtraText]))
      [] kind = "object_partial" ->
            AiText(2, JDict([basics |-> [get_empty_schema.basics EXCEPT !.name = OtherName],
                             extra |-> ExtraText]))
      [] kind = "object_empty" -> AiText(3, JDict(EmptyDict))
      [] kind = "list" -> AiText(1, JList(<<>>))

\* what the narrative AI call replies
extra_reply(kind) ==
    CASE kind = "raise" -> AiRaise
      [] kind = "text"  -> AiText(1, ExtraText)

Envs ==
    [pdf : {"raise", "text"},
     resume_ai : {"raise", "dict", "list"},
     linkedin : {"empty", "profile"},
     fetch : {"empty", "text"},
     queries_ai : {"raise", "list", "dict"},
     search : {"raise", "empty", "items"},
     github : {"empty", "profiles"},
     enrich_ai : {"raise", "empty_text", "object_full", "object_partial", "object_empty", "list"},
     extra_ai : {"raise", "text"}]

\* every fetch, search and AI collaborator returns empty or fails
QuietEnvs ==
    {e \in Envs :
        /\ e.pdf = "raise" /\ e.resume_ai = "raise" /\ e.linkedin = "empty"
        /\ e.fetch = "empty" /\ e.queries_ai = "raise" /\ e.search \in {"raise", "empty"}
        /\ e.github = "empty" /\ e.enrich_ai \in {"raise", "empty_text", "object_empty"}
        /\ e.extra_ai = "raise"}

-----------------------------------------------------------------------------
(* scrapers: what the task takes from them *)

EmptyLinkedin ==
    [name |-> <<>>, headline |-> <<>>, location |-> <<>>, about |-> <<>>,
     experiences |-> <<>>, education |-> <<>>, interests |-> <<>>, full_text |-> <<>>]

NEWLINE == "\n"

\* lines 152-166: "\n".join of the seven labelled parts, each label written
\* also when its field is empty (d has no interests, experiences or education)
linkedin_full_text(d) ==
    <<"Name: ">> \o d.name \o <<NEWLINE, "Headline: ">> \o d.headline
        \o <<NEWLINE, "Location: ">> \o d.location
        \o <<NEWLINE, "About: ">> \o d.about
        \o <<NEWLINE, "Interests: ", NEWLINE, "Experiences:", NEWLINE, "Education:">>

\* scrape_linkedin_profile: always a dict, empty when the scraper fails
scrape_linkedin_profile(behaviour) ==
    IF behaviour = "profile"
    THEN [EmptyLinkedin EXCEPT
             !.name = <<"Ann", SPACE, "Lee">>,
             !.full_text = linkedin_full_text([EmptyLinkedin EXCEPT !.name = <<"Ann", SPACE, "Lee">>])]
    ELSE EmptyLinkedin

\* a call made to a provider or to the store, and whether it returned (ok) or raised
Call(name, ok) == [call |-> name, ok |-> ok]

\* the last of the calls is the call name (a write to the cache that is still
\* to be made when the calls are those a function is about to make)
ends_with(calls, name) == calls # <<>> /\ calls[Len(calls)].call = name

\* the calls before the last
before_last(calls) == SubSeq(calls, 1, Len(calls) - 1)

\* scrapers/twitter_scraper.py.  What an endpoint does: "raise", "empty" (no
\* usable payload), "tweets" (a payload with tweets), "odd" (a payload whose
\* `data' is a list, which passes the endpoint's check)
TwitterKinds == {"raise", "empty", "tweets", "odd"}

\* _fetch_from_twitter_api / _fetch_from_dynamodb_api: the payload, None for an
\* exception, a status other than 200 or a payload without data
fetch_endpoint(kind) == IF kind \in {"tweets", "odd"} THEN kind ELSE "none"

\* _build_full_text(username, tweets, top_tweets)
build_full_text(username) ==
    <<"Twitter Profile: @">> \o username \o <<"Total tweets fetched: 1", "Recent Tweets:", "- hello">>

\* the text scrape_twitter_profile gives when both endpoints gave nothing
no_tweets_text(username) ==
    <<"Twitter Profile: @">> \o username \o <<"No tweets could be fetched.">>

\* scrape_twitter_profile(twitter_url): full_text of the returned dict, or the
\* exception of _extract_tweets_from_response, with the endpoint calls made
scrape_twitter_profile(twitter_url, first, second) ==
    LET username == extract_twitter_username(twitter_url)
        data1 == fetch_endpoint(first)
        data == IF data1 = "none" THEN fetch_endpoint(second) ELSE data1
        calls == <<Call("twitter-fetch", first # "raise")>>
                 \o (IF data1 = "none" THEN <<Call("dynamodb-tweets", second # "raise")>> ELSE <<>>)
    IN  IF username = <<>> THEN [result |-> Return(<<>>), calls |-> <<>>]
        ELSE IF data = "none" THEN [result |-> Return(no_tweets_text(username)), calls |-> calls]
        ELSE IF data = "odd"
        THEN [result |-> Raise(<<"'list' object has no attribute 'get'">>), calls |-> calls]
        ELSE [result |-> Return(build_full_text(username)), calls |-> calls]

\* firecrawl.scrape(url, ...): "raise", "none" (nothing, or no markdown key),
\* "null" (markdown is null), "empty" (markdown is ""), "text"
FirecrawlKinds == {"raise", "none", "null", "empty", "text"}

\* exa_client.get_contents([url], text=True): "raise", "no_results", "empty"
\* (a result whose text is None or ""), "text"
ExaKinds == {"raise", "no_results", "empty", "text"}

ExaText == <<"exa", "text">>

Providers ==
    [twitter_fetch : TwitterKinds, dynamodb_tweets : TwitterKinds,
     firecrawl : FirecrawlKinds, exa : ExaKinds]

\* 'https://' + url unless the url starts with http:// or https://
with_scheme(url) ==
    IF url # <<>> /\ Head(url) \in {"http://", "https://"} THEN url ELSE <<"https://">> \o url

\* a fetcher that skips the secondary provider
crawl_url_no_secondary(s, url, use_cache, get_ok, set_ok, p) ==
    LET u == with_scheme(url)
        cached == IF use_cache THEN get_cached_url(s, u, get_ok) ELSE None
        lookup == IF use_cache THEN <<Call("get_cached_url", get_ok)>> ELSE <<>>
        content == IF p.firecrawl = "text" THEN Str(PageText) ELSE Str(<<>>)
        write == truthy(content) /\ use_cache
    IN  IF is_linkedin_url(u) THEN [content |-> Str(<<>>), store |-> s, calls |-> <<>>]
        ELSE IF truthy(cached) THEN [content |-> cached, store |-> s, calls |-> lookup]
        ELSE [content |-> content,
              store |-> IF write THEN set_cached_url(s, u, content.s, set_ok) ELSE s,
              calls |-> lookup \o <<Call("firecrawl.scrape", p.firecrawl # "raise")>>
                        \o (IF write THEN <<Call("set_cached_url", set_ok)>> ELSE <<>>)]

\* a fetcher that consults the URL cache before it looks at the kind of URL
crawl_url_cache_first(s, url, use_cache, get_ok, set_ok, p) ==
    LET u == with_scheme(url)
        cached == get_cached_url(s, u, get_ok)
    IN  IF truthy(cached)
        THEN [content |-> cached, store |-> s, calls |-> <<Call("get_cached_url", get_ok)>>]
        ELSE [content |-> Str(<<>>), store |-> s, calls |-> <<Call("get_cached_url", get_ok)>>]

\* a last step that writes whatever content there is when the cache is in use
crawl_cache_write_always(s, u, use_cache, set_ok, content, calls) ==
    [content |-> content,
     store |-> IF use_cache
               THEN set_cached_url(s, u, IF content.t = "str" THEN content.s ELSE <<>>, set_ok)
               ELSE s,
     calls |-> IF use_cache THEN Append(calls, Call("set_cached_url", set_ok)) ELSE calls]

\* lines 70-76 of crawl_url_with_fallback: non-empty content is written to the
\* URL cache when the cache is in use, and the content is returned
crawl_cache_write(s, u, use_cache, set_ok, content, calls) ==
    [content |-> content,
     store |-> IF truthy(content) /\ use_cache THEN set_cached_url(s, u, content.s, set_ok) ELSE s,
     calls |-> IF truthy(content) /\ use_cache
               THEN Append(calls, Call("set_cached_url", set_ok)) ELSE calls]

\* lines 58-67: with no content yet, Exa is asked; its text (or "") replaces
\* the content unless it raised or returned no result
crawl_exa(s, u, use_cache, set_ok, p, content, calls) ==
    crawl_cache_write(s, u, use_cache, set_ok,
        IF truthy(content) THEN content
        ELSE CASE p.exa = "text" -> Str(ExaText)
               [] p.exa = "empty" -> Str(<<>>)
               [] OTHER -> content,
        IF truthy(content) THEN calls
        ELSE Append(calls, Call("exa.get_contents", p.exa # "raise")))

\* lines 48-55: with no content yet, Firecrawl is asked; the markdown of its
\* answer ("", null or text) replaces the content unless it raised or
\* returned nothing
crawl_firecrawl(s, u, use_cache, set_ok, p, content, calls) ==
    crawl_exa(s, u, use_cache, set_ok, p,
        IF truthy(content) THEN content
        ELSE CASE p.firecrawl = "text" -> Str(PageText)
               [] p.firecrawl = "empty" -> Str(<<>>)
               [] p.firecrawl = "null" -> None
               [] OTHER -> content,
        IF truthy(content) THEN calls
        ELSE Append(calls, Call("firecrawl.scrape", p.firecrawl # "raise")))

\* lines 35-45: for a twitter / x URL the platform chain tw has run; a
\* non-empty full_text becomes the content, an exception leaves it ""
crawl_twitter(s, u, use_cache, set_ok, p, tw, calls) ==
    crawl_firecrawl(s, u, use_cache, set_ok, p,
        IF is_twitter_url(u) /\ ~tw.result.raised /\ tw.result.value # <<>>
        THEN Str(tw.result.value) ELSE Str(<<>>),
        IF is_twitter_url(u) THEN calls \o tw.calls ELSE calls)

\* lines 24-33: a LinkedIn URL is skipped before anything else; a non-empty
\* cached text is returned; otherwise the providers are tried
crawl_lookup(s, u, use_cache, set_ok, p, cached, lookup) ==
    IF is_linkedin_url(u) THEN [content |-> Str(<<>>), store |-> s, calls |-> <<>>]
    ELSE IF truthy(cached) THEN [content |-> cached, store |-> s, calls |-> lookup]
    ELSE crawl_twitter(s, u, use_cache, set_ok, p,
                       scrape_twitter_profile(u, p.twitter_fetch, p.dynamodb_tweets), lookup)

\* scrapers/web_scraper.py crawl_url_with_fallback(url, use_cache) against the
\* store s and the provider behaviour p: the content returned (None when the
\* primary's markdown is null and the secondary gives nothing), the store
\* after the call and the calls made, in order
crawl_url_with_fallback(s, url, use_cache, get_ok, set_ok, p) ==
    crawl_lookup(s, with_scheme(url), use_cache, set_ok, p,
                 IF use_cache THEN get_cached_url(s, with_scheme(url), get_ok) ELSE None,
                 IF use_cache THEN <<Call("get_cached_url", get_ok)>> ELSE <<>>)

\* the providers behind the task's fetch behaviour: nothing anywhere, or text
\* from the first provider asked
fetch_providers(behaviour) ==
    IF behaviour = "empty"
    THEN [twitter_fetch |-> "raise", dynamodb_tweets |-> "raise", firecrawl |-> "raise", exa |-> "raise"]
    ELSE [twitter_fetch |-> "tweets", dynamodb_tweets |-> "tweets", firecrawl |-> "text", exa |-> "text"]

\* the text of a content value, "" for None
text_of(content) == IF truthy(content) THEN content.s ELSE <<>>

\* crawl_all_links keeps {url, content} for a link whose content is not empty
crawled_item(link, content) ==
    IF content # <<>> THEN <<[url |-> link, content |-> content]>> ELSE <<>>

\* a loop that fetches a link each time it comes
RECURSIVE crawl_at_repeating(_, _, _)
crawl_at_repeating(links, k, seen_urls) ==
    IF k >= Len(links) THEN Len(links)
    ELSE IF links[k + 1] # <<>> THEN k
    ELSE crawl_at_repeating(links, k + 1, seen_urls)

\* lines 84-85 of crawl_all_links: the number of links the loop has passed when
\* it comes to the next link it fetches (a link that is not empty and was not
\* seen before), the length of the list when there is none; k links are passed
RECURSIVE crawl_at(_, _, _)
crawl_at(links, k, seen_urls) ==
    IF k >= Len(links) THEN Len(links)
    ELSE IF links[k + 1] # <<>> /\ links[k + 1] \notin seen_urls THEN k
    ELSE crawl_at(links, k + 1, seen_urls)

\* generate_search_queries: the parsed list, [] for another shape, and on any
\* exception the fallback built from usernames[:2] and the name
generate_search_queries(name, occupation, usernames, reply) ==
    IF reply.raises \/ reply.parses_at # 1
    THEN SubSeq(usernames, 1, IF Len(usernames) < 2 THEN Len(usernames) ELSE 2)
         \o (IF name # <<>>
             THEN <<IF occupation # <<>> THEN name \o <<SPACE>> \o occupation ELSE name>>
             ELSE <<>>)
    ELSE IF reply.value.t = "list" THEN reply.value.v ELSE <<>>

MAX_QUERIES == 6

\* the default of the parameter max_results_per_query
max_results_per_query == 3

\* a result as the search provider returns it
RawResult(url, title, markdown, description) ==
    [url |-> url, title |-> title, markdown |-> markdown, description |-> description,
     snippet |-> <<>>]

RawBlog == RawResult(BlogUrl, <<"blog">>, PageText, <<>>)

RawFound == RawResult(FoundLink, <<"ann">>, <<>>, <<"about", "ann">>)

\* the URL of RawFound once more, with another title and text
RawFoundAgain == RawResult(FoundLink, <<"later">>, PageText, <<>>)

RawNoUrl == RawResult(<<>>, <<"void">>, PageText, <<>>)

RawGithub == RawResult(GithubHit.url, <<"ann">>, PageText, <<>>)

RawLinkedin == RawResult(<<"https://", "linkedin.com", "/", "in", "/", "ann">>, <<"ann">>, PageText, <<>>)

\* firecrawl.search(query, limit, ...) per behaviour: "raise" raises, the
\* others return a list of results
SearchKinds == {"raise", "empty", "items", "mixed"}

provider_results(kind) ==
    CASE kind = "items" -> <<RawBlog>>
      [] kind = "mixed" -> <<RawFound, RawNoUrl, RawGithub, RawBlog, RawLinkedin, RawFoundAgain>>
      [] OTHER -> <<>>

SearchCall(name, ok, query) == [call |-> name, ok |-> ok, query |-> query]

\* lines 199-210: content is the markdown, else the description, else the snippet
result_item(result) ==
    [url |-> result.url, title |-> result.title,
     content |-> IF result.markdown # <<>> THEN result.markdown
                 ELSE IF result.description # <<>> THEN result.description
                 ELSE result.snippet]

\* lines 177-210, the loop over the results of one query: a result with no
\* URL, a URL seen before in this call, or a GitHub / LinkedIn URL is skipped
\* (exclude_urls is empty: the task passes none)
\* a loop over the results that keeps a URL each time it comes
collect_results_repeating(results_data, seen_urls, all_results) ==
    [seen_urls |-> seen_urls \cup {results_data[k].url : k \in 1..Len(results_data)},
     all_results |->
        all_results \o [k \in 1..Len(SelectSeq(results_data, LAMBDA x : x.url # <<>>)) |->
                          result_item(SelectSeq(results_data, LAMBDA x : x.url # <<>>)[k])]]

RECURSIVE collect_results(_, _, _)
collect_results(results_data, seen_urls, all_results) ==
    IF results_data = <<>> THEN [seen_urls |-> seen_urls, all_results |-> all_results]
    ELSE IF \/ Head(results_data).url = <<>>
            \/ Head(results_data).url \in seen_urls
            \/ is_github_url(Head(results_data).url)
            \/ is_linkedin_url(Head(results_data).url)
    THEN collect_results(Tail(results_data), seen_urls, all_results)
    ELSE collect_results(Tail(results_data), seen_urls \cup {Head(results_data).url},
                         Append(all_results, result_item(Head(results_data))))

\* a search step that asks the provider although the cache answered
search_query_no_cache(s, query, limit, use_cache, get_ok, set_ok, kind) ==
    IF kind = "raise"
    THEN [store |-> s, results_data |-> <<>>,
          calls |-> <<SearchCall("firecrawl.search", FALSE, query)>>]
    ELSE [store |-> IF use_cache
                    THEN set_cached_search(s, query, limit, provider_results(kind), set_ok) ELSE s,
          results_data |-> provider_results(kind),
          calls |-> <<SearchCall("firecrawl.search", TRUE, query)>>
                    \o (IF use_cache THEN <<SearchCall("set_cached_search", set_ok, query)>> ELSE <<>>)]

\* a search step that caches an empty list for a query whose search raised
search_query_caches_failure(s, query, limit, use_cache, get_ok, set_ok, kind) ==
    IF use_cache /\ get_cached_search(s, query, limit, get_ok) # None
    THEN [store |-> s,
          results_data |-> get_cached_search(s, query, limit, get_ok).v,
          calls |-> <<SearchCall("get_cached_search", get_ok, query)>>]
    ELSE [store |-> IF use_cache
                    THEN set_cached_search(s, query, limit, provider_results(kind), set_ok) ELSE s,
          results_data |-> provider_results(kind),
          calls |-> (IF use_cache THEN <<SearchCall("get_cached_search", get_ok, query)>> ELSE <<>>)
                    \o <<SearchCall("firecrawl.search", kind # "raise", query)>>
                    \o (IF use_cache
                        THEN <<SearchCall("set_cached_search", set_ok, query)>> ELSE <<>>)]

\* lines 111-175, one query: the cached list when the lookup gives one (an
\* empty list included); otherwise the provider is asked, and what it returns
\* is written to the search cache (when in use) before it is used; when the
\* provider raises the query yields nothing
search_query(s, query, limit, use_cache, get_ok, set_ok, kind) ==
    IF use_cache /\ get_cached_search(s, query, limit, get_ok) # None
    THEN [store |-> s,
          results_data |-> get_cached_search(s, query, limit, get_ok).v,
          calls |-> <<SearchCall("get_cached_search", get_ok, query)>>]
    ELSE IF kind = "raise"
    THEN [store |-> s, results_data |-> <<>>,
          calls |-> (IF use_cache THEN <<SearchCall("get_cached_search", get_ok, query)>> ELSE <<>>)
                    \o <<SearchCall("firecrawl.search", FALSE, query)>>]
    ELSE [store |-> IF use_cache
                    THEN set_cached_search(s, query, limit, provider_results(kind), set_ok) ELSE s,
          results_data |-> provider_results(kind),
          calls |-> (IF use_cache THEN <<SearchCall("get_cached_search", get_ok, query)>> ELSE <<>>)
                    \o <<SearchCall("firecrawl.search", TRUE, query)>>
                    \o (IF use_cache THEN <<SearchCall("set_cached_search", set_ok, query)>> ELSE <<>>)]

\* the calls of one query, each with the place of the query in the list
calls_at(calls, i) ==
    [k \in 1..Len(calls) |->
        [call |-> calls[k].call, ok |-> calls[k].ok, query |-> calls[k].query, at |-> i]]

\* a loop over the whole list of queries
queries_searched_all(queries) == queries

\* line 110: queries[:6]
queries_searched(queries) ==
    SubSeq(queries, 1, IF Len(queries) < MAX_QUERIES THEN Len(queries) ELSE MAX_QUERIES)

\* scrapers/github_scraper.py
github_search_limit == 5

\* lines 33-37: usernames[:3], then the name (with the occupation when there is one)
github_queries(name, usernames, occupation) ==
    SubSeq(usernames, 1, IF Len(usernames) < 3 THEN Len(usernames) ELSE 3)
    \o (IF name # <<>>
        THEN <<IF occupation # <<>> THEN name \o <<SPACE>> \o occupation ELSE name>>
        ELSE <<>>)

\* firecrawl.search(query, limit = 5) per behaviour of the GitHub search
github_results(kind) == IF kind = "profiles" THEN <<RawGithub>> ELSE <<>>

\* lines 47-110, one query: the list cached under f"github:{query}" when the
\* lookup gives one; otherwise the provider's list, written to the search
\* cache (an empty list too) before it is used
github_query(s, query, get_ok, set_ok, kind) ==
    IF get_cached_search(s, <<"github:">> \o query, github_search_limit, get_ok) # None
    THEN [store |-> s,
          results_data |-> get_cached_search(s, <<"github:">> \o query, github_search_limit, get_ok).v,
          calls |-> <<SearchCall("get_cached_search", get_ok, <<"github:">> \o query)>>]
    ELSE [store |-> set_cached_search(s, <<"github:">> \o query, github_search_limit,
                                      github_results(kind), set_ok),
          results_data |-> github_results(kind),
          calls |-> <<SearchCall("get_cached_search", get_ok, <<"github:">> \o query),
                      SearchCall("firecrawl.search", TRUE, query),
                      SearchCall("set_cached_search", set_ok, <<"github:">> \o query)>>]

\* lines 112-132, the loop over the results of one query: only a GitHub URL
\* not seen before in this call is kept
RECURSIVE github_collect(_, _, _)
github_collect(results_data, seen_urls, all_results) ==
    IF results_data = <<>> THEN [seen_urls |-> seen_urls, all_results |-> all_results]
    ELSE IF /\ Head(results_data).url # <<>>
            /\ is_github_url(Head(results_data).url)
            /\ Head(results_data).url \notin seen_urls
    THEN github_collect(Tail(results_data), seen_urls \cup {Head(results_data).url},
                        Append(all_results, result_item(Head(results_data))))
    ELSE github_collect(Tail(results_data), seen_urls, all_results)

\* the text of a url with every slash a token of its own: the scheme
\* "https://" is "https:" and two slashes
RECURSIVE slashes_apart(_)
slashes_apart(url) ==
    IF url = <<>> THEN <<>>
    ELSE (CASE Head(url) = "https://" -> <<"https:", "/", "/">>
            [] Head(url) = "http://" -> <<"http:", "/", "/">>
            [] OTHER -> <<Head(url)>>) \o slashes_apart(Tail(url))

\* text.split('/') without its empty parts, each part the text between two
\* slashes; part is the part being read
RECURSIVE split_slash(_, _)
split_slash(text, part) ==
    IF text = <<>> THEN (IF part = <<>> THEN <<>> ELSE <<part>>)
    ELSE IF Head(text) = "/"
    THEN (IF part = <<>> THEN <<>> ELSE <<part>>) \o split_slash(Tail(text), <<>>)
    ELSE split_slash(Tail(text), Append(part, Head(text)))

\* url.split('github.com/')[-1].split('/') without its empty parts: what
\* follows the last "github.com/" of the url (the whole url when there is
\* none), cut at the slashes
github_path_parts(url) ==
    LET text == slashes_apart(url)
        hosts == {i \in 1..(Len(text) - 1) : text[i] = "github.com" /\ text[i + 1] = "/"}
        at == IF hosts = {} THEN 0 ELSE 1 + CHOOSE i \in hosts : \A k \in hosts : k <= i
    IN  split_slash(SubSeq(text, at + 1, Len(text)), <<>>)

\* lines 134-180: a result with at most one path part is a profile, another a
\* repository; the summary is the AI's text when there is a result
search_github_for_person(all_results) ==
    [profiles |-> SelectSeq(all_results, LAMBDA r : Len(github_path_parts(r.url)) <= 1),
     repositories |-> SelectSeq(all_results, LAMBDA r : Len(github_path_parts(r.url)) > 1),
     summary |-> IF all_results # <<>> THEN <<"summary">> ELSE <<>>,
     raw_results |-> all_results]

-----------------------------------------------------------------------------
(* app.py process_profile_task, lines 68-226: the pipeline up to the result *)

\* the orders a set may be listed in
RECURSIVE orderings(_)
orderings(S) ==
    IF S = {} THEN {<<>>}
    ELSE UNION {{<<x>> \o order : order \in orderings(S \ {x})} : x \in S}

\* list(set(xs)): the distinct items, in an order Python leaves unspecified;
\* the set of the lists it may give
list_set(xs) == orderings({xs[i] : i \in 1..Len(xs)})

list_contains(xs, x) == \E i \in 1..Len(xs) : xs[i] = x

RECURSIVE rstrip_slash(_)
rstrip_slash(url) ==
    IF url # <<>> /\ url[Len(url)] = "/" THEN rstrip_slash(SubSeq(url, 1, Len(url) - 1)) ELSE url

\* github_url.rstrip('/').split('/')[-1]: the text after the last slash of
\* the url without its trailing slashes
github_username(github_url) ==
    LET r == rstrip_slash(slashes_apart(github_url))
        slashes == {i \in 1..Len(r) : r[i] = "/"}
        at == IF slashes = {} THEN 0 ELSE CHOOSE i \in slashes : \A k \in slashes : k <= i
    IN  SubSeq(r, at + 1, Len(r))

\* data.get(k, '') of a URL field as text: a null is falsy like ""
url_field(data, k) ==
    LET v == dict_get_default(data, k, Str(<<>>)) IN IF truthy(v) THEN v.s ELSE <<>>

\* a task that sets extra and the github key and leaves missing groups missing
finish_schema_keeps_gaps(enriched_schema, extra_description, github_data) ==
    LET with_extra == dict_set(enriched_schema, "extra", extra_description)
    IN  IF (github_data.summary # <<>> \/ github_data.profiles # <<>>)
           /\ "github" \notin DOMAIN with_extra
        THEN dict_set(with_extra, "github",
                      [summary |-> github_data.summary, profiles |-> github_data.profiles,
                       repositories |-> github_data.repositories])
        ELSE with_extra

\* lines 210-226: the github key and the four required groups
finish_schema(enriched_schema, extra_description, github_data) ==
    LET with_extra == dict_set(enriched_schema, "extra", extra_description)
        with_github ==
            IF (github_data.summary # <<>> \/ github_data.profiles # <<>>)
               /\ "github" \notin DOMAIN with_extra
            THEN dict_set(with_extra, "github",
                          [summary |-> github_data.summary, profiles |-> github_data.profiles,
                           repositories |-> github_data.repositories])
            ELSE with_extra
    IN  with_github @@ [k \in RequiredGroups |-> get_empty_schema[k]]

\* line 94: the seed record of the input
task_initial_schema(data) ==
    build_initial_schema_from_input(data, dict_get_default(data, "jobHistory", <<>>),
                                    dict_get_default(data, "education", <<>>))

\* lines 97-114: resume_info, the default when there is no resume text
task_resume_info(data, env) ==
    IF url_field(data, "resume") # <<>> /\ env.pdf = "text"
    THEN extract_nicknames_and_links_from_resume(resume_reply(env.resume_ai))
    ELSE DefaultResumeInfo

\* line 144: a link that is not empty and neither a LinkedIn nor a GitHub URL
wanted_link(l) == l # <<>> /\ ~is_linkedin_url(l) /\ ~is_github_url(l)

\* lines 138-144: the lists all_links may be, one for each order of the set
task_all_links(data, resume_info) ==
    {SelectSeq(order, wanted_link) :
        order \in list_set(dict_get_default(data, "extraLinks", <<>>)
                           \o resume_info.v.links
                           \o (IF url_field(data, "portfolio") # <<>>
                               THEN <<url_field(data, "portfolio")>> ELSE <<>>)
                           \o (IF url_field(data, "twitter") # <<>>
                               THEN <<url_field(data, "twitter")>> ELSE <<>>))}

\* line 150: the seed name, else the legal name of the resume
reference_name(data, resume_info) ==
    IF seed_name(data) # <<>> THEN seed_name(data) ELSE resume_info.v.legal_name

\* line 151
reference_occupation(data) == task_initial_schema(data).basics.current_occupation

\* lines 153-164: the usernames of the resume, then those of the GitHub and
\* the twitter URL when they are new
reference_usernames(data, resume_info) ==
    LET usernames0 == resume_info.v.usernames
        github_url == url_field(data, "github")
        twitter_url == url_field(data, "twitter")
        usernames1 == IF github_url # <<>> /\ github_username(github_url) # <<>>
                         /\ ~list_contains(usernames0, github_username(github_url))
                      THEN Append(usernames0, github_username(github_url)) ELSE usernames0
    IN  IF twitter_url # <<>> /\ extract_twitter_username(twitter_url) # <<>>
           /\ ~list_contains(usernames1, extract_twitter_username(twitter_url))
        THEN Append(usernames1, extract_twitter_username(twitter_url)) ELSE usernames1

\* lines 168-174: search_queries
task_search_queries(data, env) ==
    generate_search_queries(reference_name(data, task_resume_info(data, env)),
                            reference_occupation(data),
                            reference_usernames(data, task_resume_info(data, env)),
                            queries_reply(env.queries_ai))

\* the queries search_for_person_online goes through: the first MAX_QUERIES
task_searched(data, env) == queries_searched(task_search_queries(data, env))

\* lines 181-185: the queries search_github_for_person goes through
task_github_queries(data, env) ==
    github_queries(reference_name(data, task_resume_info(data, env)),
                   reference_usernames(data, task_resume_info(data, env)),
                   reference_occupation(data))

NothingFound == [seen_urls |-> {}, all_results |-> <<>>]

\* What a thread holds while it gathers content: the collaborator behaviour it
\* meets, all_links, the links, search queries and GitHub queries it is done
\* with (i, q, g), what it gathered, and a provider's answer waiting to be
\* written to the cache (None when there is none).
TaskWork(env, all_links) ==
    [env |-> env, all_links |-> all_links, i |-> 0, crawled_content |-> <<>>,
     q |-> 0, found |-> NothingFound, g |-> 0, github |-> NothingFound, pending |-> None]

\* where the pipeline stands: in crawl_all_links, in search_for_person_online,
\* in search_github_for_person, or past them
task_stage(data, w) ==
    IF w.i < Len(w.all_links) THEN "crawl"
    ELSE IF w.q < Len(task_searched(data, w.env)) THEN "search"
    ELSE IF w.g < Len(task_github_queries(data, w.env)) THEN "github"
    ELSE "enrich"

\* lines 188-226: the synthesis, the narrative and the required groups;
\* Return(enriched_schema) at line 230, or Raise(str(e)) for the except clause
task_outcome(data, w) ==
    LET enriched_schema == enrich_schema_with_crawled_content(
                               task_initial_schema(data),
                               enrich_reply(w.env.enrich_ai, task_initial_schema(data)))
    IN  IF enriched_schema.t # "dict"
        THEN Raise(<<"list indices must be integers or slices, not str">>)
        ELSE Return(finish_schema(enriched_schema.v,
                                  generate_extra_description(extra_reply(w.env.extra_ai)),
                                  search_github_for_person(w.github.all_results)))

\* the content the task gathered and hands to the synthesis (lines 190-195) and
\* joins into all_text_content (201-202): the crawled items, then the search items
accumulated_content(w) == w.crawled_content \o w.found.all_results

-----------------------------------------------------------------------------
(* Request bodies *)

\* a request whose body is not parseable JSON
BadJson == [t |-> "badjson"]

\* the body of test_minimal_candidate_data: a name and every link empty
MinimalData ==
    JDict([firstName |-> Str(<<"Ann">>), lastName |-> Str(<<"Lee">>), phone |-> Str(<<>>),
           linkedin |-> Str(<<>>), github |-> Str(<<>>), twitter |-> Str(<<>>),
           portfolio |-> Str(<<>>), resume |-> Str(<<>>), extraLinks |-> <<>>,
           skills |-> Str(<<>>), experience |-> Str(<<>>), jobHistory |-> <<>>, education |-> <<>>])

\* the same identity written differently: " ann " / "LEE"
AliasData ==
    JDict([firstName |-> Str(<<SPACE, "ann", SPACE>>), lastName |-> Str(<<"LEE">>)])

\* another identity, with links, a resume and history
RichData ==
    JDict([firstName |-> Str(<<"Bob">>), lastName |-> Str(<<"Ray">>),
           email |-> Str(<<"bob@x">>),
           linkedin |-> Str(<<"https://", "LinkedIn.com", "/", "in", "/", "bob">>),
           github |-> Str(<<"https://", "github.com", "/", "bob", "/">>),
           twitter |-> Str(<<"https://", "x.com", "/", "bob">>),
           resume |-> Str(<<"https://", "cdn.dev", "/", "r.pdf">>),
           extraLinks |-> <<BlogUrl, <<>>, <<"https://", "github.com", "/", "bob">>, BlogUrl>>,
           jobHistory |-> <<[companyName |-> <<"Acme">>, jobTitle |-> <<"Engineer">>,
                             startDate |-> <<"2020">>]>>,
           education |-> <<[institution |-> <<"UofT">>, degree |-> <<"BSc">>]>>])

\* the identity of MinimalData with other links, a resume and history
TwinData ==
    JDict([firstName |-> Str(<<"ann", SPACE>>), lastName |-> Str(<<"Lee">>),
           github |-> Str(<<"https://", "github.com", "/", "ann">>),
           portfolio |-> Str(<<"bob.dev">>),
           resume |-> Str(<<"https://", "cdn.dev", "/", "r.pdf">>),
           extraLinks |-> <<<<>>>>,
           jobHistory |-> <<[companyName |-> <<"Acme">>, jobTitle |-> <<"Engineer">>,
                             startDate |-> <<"2020">>]>>,
           education |-> <<[institution |-> <<"UofT">>, degree |-> <<"BSc">>]>>])

NoNameData == JDict([linkedin |-> Str(<<"https://", "linkedin.com", "/", "in", "/", "ann">>)])

NullFirstNameData == JDict([firstName |-> None, lastName |-> Str(<<"Lee">>)])

ListData == JList(<<MinimalData>>)

ValidBodies == {MinimalData, AliasData, RichData}

\* both name fields present and falsy
EmptyNamesData == JDict([firstName |-> Str(<<>>), lastName |-> None, github |-> Str(<<"https://", "github.com", "/", "ann">>)])

InvalidBodies ==
    {BadJson, None, JDict(EmptyDict), JList(<<>>), ListData, NoNameData, EmptyNamesData, NullFirstNameData}

\* not data: None, {} and [] are falsy
falsy_json(data) ==
    \/ data.t \in {"none", "badjson"}
    \/ data.t = "dict" /\ DOMAIN data.v = {}
    \/ data.t = "list" /\ data.v = <<>>

\* not data.get('firstName') and not data.get('lastName')
no_name(d) == ~truthy(dict_get(d, "firstName")) /\ ~truthy(dict_get(d, "lastName"))

-----------------------------------------------------------------------------
(* State *)

NoJob == [t |-> "none"]

NoResp == [op |-> "none"]

\* the events recorded for a job
StatusWrite(status, ok) == [op |-> "set_job_status", status |-> status, ok |-> ok]

CacheWrite(ok) == [op |-> "set_cached_result", ok |-> ok]

ThreadStart == [op |-> "thread_start"]

\* collaborator behaviours of the general specification: a synthesis that
\* succeeds and one that makes the pipeline raise
CoreEnvs ==
    {e \in Envs :
        /\ e.pdf = "text" /\ e.resume_ai = "dict" /\ e.linkedin = "profile"
        /\ e.fetch = "text" /\ e.queries_ai = "dict" /\ e.search = "items"
        /\ e.github = "profiles" /\ e.extra_ai = "text"
        /\ e.enrich_ai \in {"object_full", "list"}}

InitBase ==
    /\ store = [k \in {} |-> NoJob]
    /\ pc = [j \in JobIds |-> "none"]
    /\ args = [j \in JobIds |-> NoJob]
    /\ local = [j \in JobIds |-> NoJob]
    /\ work = [j \in JobIds |-> NoJob]
    /\ handler = [j \in JobIds |-> NoJob]
    /\ hist = [j \in JobIds |-> <<>>]
    /\ next_id = 1
    /\ resp = NoResp
    /\ undisturbed = {}
    /\ invalidated = {}

Init == InitBase /\ stub = CoreEnvs

-----------------------------------------------------------------------------
(* app.py process_profile, lines 279-340.  The handler reads the store at   *)
(* line 300 and writes to it at line 316; other handlers and the job        *)
(* threads run between its calls, so each call is a step of its own.  The   *)
(* probe of line 281 reads nothing of what the store holds and is taken     *)
(* with the step that follows it.                                           *)

JsonResponse(op, request, calls, code, body) ==
    [op |-> op, request |-> request, calls |-> calls, code |-> code, body |-> body]

RedisUnavailable == <<"Redis is not available. Please ensure Redis is running.">>

\* a probe that reports the store as connected whatever ping() did
check_redis_connection_always(ping) == TRUE

\* utils/redis_client.py check_redis_connection: True when client.ping() returns,
\* False when it raises
check_redis_connection(ping) == ping

\* the route the handler takes up to the cache lookup: the response it returns
\* early, or the cache_key and the cached_result it goes on with
process_profile_route(s, data, ping, get_ok) ==
    IF ~check_redis_connection(ping)
    THEN [kind |-> "early", calls |-> <<Call("ping", ping)>>, code |-> 503,
          body |-> [error |-> RedisUnavailable, success |-> FALSE]]
    ELSE IF falsy_json(data)
    THEN [kind |-> "early", calls |-> <<Call("ping", ping)>>, code |-> 400,
          body |-> [error |-> <<"JSON body is required">>]]
    ELSE IF data.t # "dict"
    THEN [kind |-> "early", calls |-> <<Call("ping", ping)>>, code |-> 500,
          body |-> [error |-> <<"'list' object has no attribute 'get'">>, success |-> FALSE]]
    ELSE IF no_name(data.v)
    THEN [kind |-> "early", calls |-> <<Call("ping", ping)>>, code |-> 400,
          body |-> [error |-> <<"firstName or lastName is required">>]]
    ELSE IF generate_cache_key(data.v).raised
    THEN [kind |-> "early", calls |-> <<Call("ping", ping)>>, code |-> 500,
          body |-> [error |-> generate_cache_key(data.v).error, success |-> FALSE]]
    ELSE LET cache_key == generate_cache_key(data.v).value
             cached_result == get_cached_result(s, cache_key, get_ok)
         IN  [kind |-> IF cached_result # None /\ DOMAIN cached_result.v # {} THEN "hit" ELSE "miss",
              calls |-> <<Call("ping", ping), Call("get", get_ok)>>,
              cache_key |-> cache_key, cached_result |-> cached_result]

\* where a handler stands after its lookup missed, and the store calls it made
Handling(at, calls) == [at |-> at, calls |-> calls]

\* a submit handler that gives every submission the job_id of the first
process_profile_first_id(data, ping, get_ok) ==
    LET route == process_profile_route(store, data, ping, get_ok)
        job_id == 1
    IN  IF route.kind = "early"
        THEN /\ resp' = JsonResponse("process_profile", data, route.calls, route.code, route.body)
             /\ UNCHANGED <<store, pc, args, local, work, handler, hist, next_id, undisturbed, stub>>
        ELSE IF route.kind = "hit"
        THEN /\ job_id \in JobIds
             /\ next_id' = next_id + 1
             /\ resp' = JsonResponse("process_profile", data, route.calls, 200,
                                     [job_id |-> job_id, status |-> "complete", cached |-> TRUE,
                                      result |-> route.cached_result.v])
             /\ UNCHANGED <<store, pc, args, local, work, handler, hist, undisturbed, stub>>
        ELSE /\ next_id \in JobIds
             /\ next_id' = next_id + 1
             /\ handler' = [handler EXCEPT ![job_id] = Handling("set_job_status", route.calls)]
             /\ args' = [args EXCEPT ![job_id] = [cache_key |-> route.cache_key, data |-> data.v]]
             /\ resp' = NoResp
             /\ UNCHANGED <<store, pc, local, work, hist, undisturbed, stub>>

\* a submit that also writes a complete job record when it answers from the cache
process_profile_hit_recorded(data, ping, get_ok) ==
    LET route == process_profile_route(store, data, ping, get_ok)
        job_id == next_id
    IN  IF route.kind = "early"
        THEN /\ resp' = JsonResponse("process_profile", data, route.calls, route.code, route.body)
             /\ UNCHANGED <<store, pc, args, local, work, handler, hist, next_id, undisturbed, stub>>
        ELSE IF route.kind = "hit"
        THEN /\ job_id \in JobIds
             /\ next_id' = next_id + 1
             /\ resp' = JsonResponse("process_profile", data, route.calls, 200,
                                     [job_id |-> job_id, status |-> "complete", cached |-> TRUE,
                                      result |-> route.cached_result.v])
             /\ store' = set_job_status(store, job_id, "complete", route.cache_key,
                                        route.cached_result, None, TRUE)
             /\ UNCHANGED <<pc, args, local, work, handler, hist, undisturbed, stub>>
        ELSE /\ job_id \in JobIds
             /\ next_id' = next_id + 1
             /\ handler' = [handler EXCEPT ![job_id] = Handling("set_job_status", route.calls)]
             /\ args' = [args EXCEPT ![job_id] = [cache_key |-> route.cache_key, data |-> data.v]]
             /\ resp' = NoResp
             /\ UNCHANGED <<store, pc, local, work, hist, undisturbed, stub>>

\* lines 279-313: the probe, the body checks, the Identity Key and the Result
\* Cache lookup.  The handler answers at once (503, 400, 500, or 200 from the
\* cache with a fresh job_id), or draws the job_id and goes on to line 316.
process_profile(data, ping, get_ok) ==
    LET route == process_profile_route(store, data, ping, get_ok)
        job_id == next_id
    IN  IF route.kind = "early"
        THEN /\ resp' = JsonResponse("process_profile", data, route.calls, route.code, route.body)
             /\ UNCHANGED <<store, pc, args, local, work, handler, hist, next_id, undisturbed, stub>>
        ELSE IF route.kind = "hit"
        THEN /\ job_id \in JobIds
             /\ next_id' = next_id + 1
             /\ resp' = JsonResponse("process_profile", data, route.calls, 200,
                                     [job_id |-> job_id, status |-> "complete", cached |-> TRUE,
                                      result |-> route.cached_result.v])
             /\ UNCHANGED <<store, pc, args, local, work, handler, hist, undisturbed, stub>>
        ELSE /\ job_id \in JobIds
             /\ next_id' = next_id + 1
             /\ handler' = [handler EXCEPT ![job_id] = Handling("set_job_status", route.calls)]
             /\ args' = [args EXCEPT ![job_id] = [cache_key |-> route.cache_key, data |-> data.v]]
             /\ resp' = NoResp
             /\ UNCHANGED <<store, pc, local, work, hist, undisturbed, stub>>

\* line 316: set_job_status(job_id, 'processing', cache_key); a failure of the
\* store is swallowed by the helper and the handler goes on
process_profile_set_job_status(job_id, set_ok) ==
    /\ handler[job_id] # NoJob /\ handler[job_id].at = "set_job_status"
    /\ store' = set_job_status(store, job_id, "processing", args[job_id].cache_key, None, None, set_ok)
    /\ hist' = [hist EXCEPT ![job_id] = Append(@, StatusWrite("processing", set_ok))]
    /\ handler' = [handler EXCEPT ![job_id] =
                      Handling("thread_start", Append(@.calls, Call("set", set_ok)))]
    /\ resp' = NoResp
    /\ UNCHANGED <<pc, args, local, work, next_id, undisturbed, stub>>

\* the thread of job j goes on with w in hand: to the next cache call of the
\* pipeline, or, past the last one, through lines 188-226 to the outcome
task_goes_on(j, w) ==
    /\ work' = [work EXCEPT ![j] = w]
    /\ \E stage \in {task_stage(args[j].data, w)} :
          IF stage = "enrich"
          THEN \E outcome \in {task_outcome(args[j].data, w)} :
                  /\ local' = [local EXCEPT ![j] = outcome]
                  /\ pc' = [pc EXCEPT ![j] = IF outcome.raised THEN "error" ELSE "cache"]
          ELSE /\ local' = local
               /\ pc' = [pc EXCEPT ![j] = stage]

\* lines 68-145 for job j under the behaviour env: the seed, the resume, the
\* LinkedIn scrape and all_links; a resume_info that is no dict raises at
\* line 115
task_begins(j, env) ==
    IF task_resume_info(args[j].data, env).t # "dict"
    THEN /\ work' = [work EXCEPT ![j] = TaskWork(env, <<>>)]
         /\ local' = [local EXCEPT ![j] = Raise(<<"'list' object has no attribute 'get'">>)]
         /\ pc' = [pc EXCEPT ![j] = "error"]
    ELSE \E all_links \in task_all_links(args[j].data, task_resume_info(args[j].data, env)) :
             task_goes_on(j, TaskWork(env, all_links))

\* a handler that runs the pipeline itself where it should start the thread
process_profile_thread_start_inline(job_id) ==
    /\ handler[job_id] # NoJob /\ handler[job_id].at = "thread_start"
    /\ \E env \in stub : task_begins(job_id, env)
    /\ hist' = [hist EXCEPT ![job_id] = Append(@, ThreadStart)]
    /\ handler' = [handler EXCEPT ![job_id] = Handling("return", @.calls)]
    /\ resp' = NoResp
    /\ UNCHANGED <<store, args, next_id, undisturbed, stub>>

\* lines 319-324: threading.Thread(target=process_profile_task, ...).start()
process_profile_thread_start(job_id) ==
    /\ handler[job_id] # NoJob /\ handler[job_id].at = "thread_start"
    /\ pc' = [pc EXCEPT ![job_id] = "start"]
    /\ hist' = [hist EXCEPT ![job_id] = Append(@, ThreadStart)]
    /\ handler' = [handler EXCEPT ![job_id] = Handling("return", @.calls)]
    /\ resp' = NoResp
    /\ UNCHANGED <<store, args, local, work, next_id, undisturbed, stub>>

\* lines 326-332: the 202 response
process_profile_return(job_id) ==
    /\ handler[job_id] # NoJob /\ handler[job_id].at = "return"
    /\ resp' = JsonResponse("process_profile", JDict(args[job_id].data), handler[job_id].calls, 202,
                            [job_id |-> job_id, status |-> "processing", cached |-> FALSE])
    /\ handler' = [handler EXCEPT ![job_id] = NoJob]
    /\ UNCHANGED <<store, pc, args, local, work, hist, next_id, undisturbed, stub>>

-----------------------------------------------------------------------------
(* app.py get_profile_status, lines 354-390 *)

get_profile_status(job_id, ping, get_ok) ==
    LET job == get_job_status(store, job_id, get_ok)
        status == job.v.status
        base == [job_id |-> job_id, status |-> status]
        response == IF status = "complete" THEN dict_set(base, "result", dict_get(job.v, "result"))
                    ELSE IF status = "error" THEN dict_set(base, "error", dict_get(job.v, "error"))
                    ELSE base
    IN  /\ resp' =
            IF ~check_redis_connection(ping)
            THEN JsonResponse("get_profile_status", job_id, <<Call("ping", FALSE)>>, 503,
                              [error |-> RedisUnavailable, success |-> FALSE])
            ELSE IF job = None \/ DOMAIN job.v = {}
            THEN JsonResponse("get_profile_status", job_id,
                              <<Call("ping", TRUE), Call("get", get_ok)>>, 404,
                              [error |-> <<"Job not found">>, job_id |-> job_id])
            ELSE JsonResponse("get_profile_status", job_id,
                              <<Call("ping", TRUE), Call("get", get_ok)>>, 200, response)
        /\ UNCHANGED <<store, pc, args, local, work, handler, hist, next_id, undisturbed, stub>>

-----------------------------------------------------------------------------
(* app.py clear_cache, lines 407-434 *)

\* the jobs whose Result Cache entry lives under key
jobs_cached_under(key) == {j \in JobIds : args[j] # NoJob /\ args[j].cache_key = key}

clear_cache(data, ping, del_ok) ==
    LET failed(calls, code, body) ==
            /\ resp' = JsonResponse("clear_cache", data, calls, code, body)
            /\ UNCHANGED <<store, undisturbed>>
    IN  /\ IF ~check_redis_connection(ping)
           THEN failed(<<Call("ping", FALSE)>>, 503,
                       [error |-> <<"Redis is not available.">>, success |-> FALSE])
           ELSE IF data.t = "badjson"
           THEN failed(<<Call("ping", TRUE)>>, 500,
                       [error |-> <<"400 Bad Request">>, success |-> FALSE])
           ELSE IF falsy_json(data)
           THEN failed(<<Call("ping", TRUE)>>, 400, [error |-> <<"firstName or lastName is required">>])
           ELSE IF data.t # "dict"
           THEN failed(<<Call("ping", TRUE)>>, 500,
                       [error |-> <<"'list' object has no attribute 'get'">>, success |-> FALSE])
           ELSE IF no_name(data.v)
           THEN failed(<<Call("ping", TRUE)>>, 400, [error |-> <<"firstName or lastName is required">>])
           ELSE IF generate_cache_key(data.v).raised
           THEN failed(<<Call("ping", TRUE)>>, 500,
                       [error |-> generate_cache_key(data.v).error, success |-> FALSE])
           ELSE IF ~del_ok
           THEN failed(<<Call("ping", TRUE), Call("delete", FALSE)>>, 500,
                       [error |-> <<"Error connecting to Redis">>, success |-> FALSE])
           ELSE LET cache_key == generate_cache_key(data.v).value
                IN  /\ store' = delete(store, cache_key)
                    /\ undisturbed' = undisturbed \ jobs_cached_under(cache_key)
                    /\ resp' = JsonResponse("clear_cache", data,
                                            <<Call("ping", TRUE), Call("delete", TRUE)>>, 200,
                                            [success |-> TRUE, deleted |-> cache_key \in DOMAIN store])
        /\ UNCHANGED <<pc, args, local, work, handler, hist, next_id, stub>>

-----------------------------------------------------------------------------
(* app.py process_profile_task, lines 61-242, as the steps of the job's     *)
(* thread.  The pipeline calls the URL cache and the search cache around    *)
(* every fetch and every search; each call of the store is a step of its    *)
(* own, and the provider and AI calls before it belong to that step.  The   *)
(* store answers the cache calls of the pipeline (what the helpers do when  *)
(* it raises is the subject of SpecCache, SpecFetch and SpecSearch).        *)

\* a pipeline that waits on a collaborator and never comes back
TaskRun_hangs(j) ==
    /\ pc[j] = "start"
    /\ UNCHANGED vars

\* lines 68-145: the thread begins, up to the first cache call of the pipeline
TaskRun(j) ==
    /\ pc[j] = "start"
    /\ \E env \in stub : task_begins(j, env)
    /\ resp' = NoResp
    /\ UNCHANGED <<store, args, handler, hist, next_id, undisturbed, invalidated, stub>>

\* the link, the search query or the GitHub query the pipeline of w is at
task_link(w) == w.all_links[w.i + 1]

task_query(data, w) == task_searched(data, w.env)[w.q + 1]

task_github_query(data, w) == task_github_queries(data, w.env)[w.g + 1]

\* crawl_all_links, lines 84-92, with the content of the link in hand
crawled(w, content) ==
    [w EXCEPT !.i = @ + 1, !.pending = None,
              !.crawled_content = @ \o crawled_item(task_link(w), content)]

\* search_for_person_online, lines 177-210, with the list of the query in hand
searched(w, results_data) ==
    [w EXCEPT !.q = @ + 1, !.pending = None,
              !.found = collect_results(results_data, @.seen_urls, @.all_results)]

\* search_github_for_person, lines 112-142, with the list of the query in hand
github_searched(w, results_data) ==
    [w EXCEPT !.g = @ + 1, !.pending = None,
              !.github = github_collect(results_data, @.seen_urls, @.all_results)]

\* the link or the query of the cache call the thread is at
task_target(stage, data, w) ==
    CASE stage = "crawl" -> task_link(w)
      [] stage = "search" -> task_query(data, w)
      [] stage = "github" -> task_github_query(data, w)

\* the lookup of the cache call the thread is at, and the provider calls that
\* follow a miss
task_call(s, stage, target, env) ==
    CASE stage = "crawl" ->
           crawl_url_with_fallback(s, target, TRUE, TRUE, TRUE, fetch_providers(env.fetch))
      [] stage = "search" ->
           search_query(s, target, max_results_per_query, TRUE, TRUE, TRUE, env.search)
      [] stage = "github" -> github_query(s, target, TRUE, TRUE, env.github)

\* what the thread holds after the calls r: the answer is used at once when
\* the cache gave it or when nothing is to be written, and waits for its
\* write otherwise
task_lookup(stage, w, r) ==
    CASE stage = "crawl" ->
           IF ends_with(r.calls, "set_cached_url")
           THEN [w EXCEPT !.pending = r.content]
           ELSE crawled(w, text_of(r.content))
      [] stage = "search" ->
           IF ends_with(r.calls, "set_cached_search")
           THEN [w EXCEPT !.pending = JList(r.results_data)]
           ELSE searched(w, r.results_data)
      [] stage = "github" ->
           IF ends_with(r.calls, "set_cached_search")
           THEN [w EXCEPT !.pending = JList(r.results_data)]
           ELSE github_searched(w, r.results_data)

\* the store after the write the thread is at
task_store(s, stage, target, w) ==
    CASE stage = "crawl" -> set_cached_url(s, with_scheme(target), w.pending.s, TRUE)
      [] stage = "search" ->
           set_cached_search(s, target, max_results_per_query, w.pending.v, TRUE)
      [] stage = "github" ->
           set_cached_search(s, <<"github:">> \o target, github_search_limit, w.pending.v, TRUE)

\* what the thread holds after that write
task_stored(stage, w) ==
    CASE stage = "crawl" -> crawled(w, w.pending.s)
      [] stage = "search" -> searched(w, w.pending.v)
      [] stage = "github" -> github_searched(w, w.pending.v)

PipelineStages == {"crawl", "search", "github"}

\* get_cached_url (web_scraper.py 30) or get_cached_search (web_scraper.py
\* 116-118, github_scraper.py 52) of the pipeline, and on a miss the provider
\* calls up to the write
TaskLookup(j) ==
    /\ pc[j] \in PipelineStages
    /\ work[j].pending = None
    /\ \E target \in {task_target(pc[j], args[j].data, work[j])} :
          \E r \in {task_call(store, pc[j], target, work[j].env)} :
             \E w \in {task_lookup(pc[j], work[j], r)} : task_goes_on(j, w)
    /\ resp' = NoResp
    /\ UNCHANGED <<store, args, handler, hist, next_id, undisturbed, invalidated, stub>>

\* set_cached_url (web_scraper.py 71) or set_cached_search (web_scraper.py
\* 173, github_scraper.py 108) of the pipeline
TaskStore(j) ==
    /\ pc[j] \in PipelineStages
    /\ work[j].pending # None
    /\ \E target \in {task_target(pc[j], args[j].data, work[j])} :
          store' = task_store(store, pc[j], target, work[j])
    /\ \E w \in {task_stored(pc[j], work[j])} : task_goes_on(j, w)
    /\ resp' = NoResp
    /\ UNCHANGED <<args, handler, hist, next_id, undisturbed, invalidated, stub>>

\* a cache write that leaves an entry another job has written
TaskCacheResult_if_absent(j) ==
    /\ pc[j] = "cache"
    /\ \E ok \in BOOLEAN :
          /\ store' = IF args[j].cache_key \in DOMAIN store THEN store
                      ELSE set_cached_result(store, args[j].cache_key, local[j].value, ok)
          /\ hist' = [hist EXCEPT ![j] = Append(@, CacheWrite(ok))]
          /\ undisturbed' = IF ok THEN undisturbed \cup {j} ELSE undisturbed
    /\ pc' = [pc EXCEPT ![j] = "complete"]
    /\ resp' = NoResp
    /\ UNCHANGED <<args, local, work, handler, next_id, invalidated, stub>>

\* line 233: set_cached_result(cache_key, enriched_schema)
TaskCacheResult(j) ==
    /\ pc[j] = "cache"
    /\ \E ok \in BOOLEAN :
          /\ store' = set_cached_result(store, args[j].cache_key, local[j].value, ok)
          /\ hist' = [hist EXCEPT ![j] = Append(@, CacheWrite(ok))]
          /\ undisturbed' = IF ok THEN undisturbed \cup {j} ELSE undisturbed
    /\ pc' = [pc EXCEPT ![j] = "complete"]
    /\ resp' = NoResp
    /\ UNCHANGED <<args, local, work, handler, next_id, invalidated, stub>>

\* a completion that writes to the record of the first job whatever job it ran for
TaskComplete_first_record(j) ==
    /\ pc[j] = "complete"
    /\ \E ok \in BOOLEAN :
          /\ store' = set_job_status(store, 1, "complete", args[j].cache_key,
                                     JDict(local[j].value), None, ok)
          /\ hist' = [hist EXCEPT ![j] = Append(@, StatusWrite("complete", ok))]
    /\ pc' = [pc EXCEPT ![j] = "done"]
    /\ resp' = NoResp
    /\ UNCHANGED <<args, local, work, handler, next_id, undisturbed, invalidated, stub>>

\* line 236: set_job_status(job_id, 'complete', cache_key, result=enriched_schema)
TaskComplete(j) ==
    /\ pc[j] = "complete"
    /\ \E ok \in BOOLEAN :
          /\ store' = set_job_status(store, j, "complete", args[j].cache_key,
                                     JDict(local[j].value), None, ok)
          /\ hist' = [hist EXCEPT ![j] = Append(@, StatusWrite("complete", ok))]
    /\ pc' = [pc EXCEPT ![j] = "done"]
    /\ resp' = NoResp
    /\ UNCHANGED <<args, local, work, handler, next_id, undisturbed, invalidated, stub>>

\* an except clause that records the error status without the message
TaskError_no_message(j) ==
    /\ pc[j] = "error"
    /\ \E ok \in BOOLEAN :
          /\ store' = set_job_status(store, j, "error", args[j].cache_key, None, None, ok)
          /\ hist' = [hist EXCEPT ![j] = Append(@, StatusWrite("error", ok))]
    /\ pc' = [pc EXCEPT ![j] = "done"]
    /\ resp' = NoResp
    /\ UNCHANGED <<args, local, work, handler, next_id, undisturbed, invalidated, stub>>

\* lines 238-242: set_job_status(job_id, 'error', cache_key, error=str(e))
TaskError(j) ==
    /\ pc[j] = "error"
    /\ \E ok \in BOOLEAN :
          /\ store' = set_job_status(store, j, "error", args[j].cache_key,
                                     None, Str(local[j].error), ok)
          /\ hist' = [hist EXCEPT ![j] = Append(@, StatusWrite("error", ok))]
    /\ pc' = [pc EXCEPT ![j] = "done"]
    /\ resp' = NoResp
    /\ UNCHANGED <<args, local, work, handler, next_id, undisturbed, invalidated, stub>>

Task(j) ==
    \/ TaskRun(j) \/ TaskLookup(j) \/ TaskStore(j)
    \/ TaskCacheResult(j) \/ TaskComplete(j) \/ TaskError(j)

\* the response of a request is with its client
ReadResponse ==
    /\ resp # NoResp
    /\ resp' = NoResp
    /\ UNCHANGED <<store, pc, args, local, work, handler, hist, next_id, undisturbed, invalidated, stub>>

\* the TTL given to setex runs out: the store drops the key
Expire(key) ==
    /\ key \in DOMAIN store
    /\ store' = delete(store, key)
    /\ undisturbed' = undisturbed \ jobs_cached_under(key)
    /\ UNCHANGED <<pc, args, local, work, handler, hist, next_id, resp, invalidated, stub>>

-----------------------------------------------------------------------------
(* Specifications *)

\* an id no submission was answered with
UnknownJobId == 0

RequestedJobIds == JobIds \cup {UnknownJobId}

SubmitBodies == {MinimalData, BadJson}

ClearBodies == {MinimalData, RichData}

\* what the store answers to the calls of one request: when the liveness probe
\* fails the handler makes no further call
AfterProbe(ping) == IF ping THEN BOOLEAN ELSE {FALSE}

\* The steps of the request handlers and of the job threads interleave freely.
\* A response is what the last step of a handler returns; it is handed to the
\* client (ReadResponse) before another step is looked at, which leaves out no
\* order of the steps that read or write the store.
Submit ==
    /\ resp = NoResp
    /\ \E data \in SubmitBodies, ping \in BOOLEAN :
          \E get_ok \in AfterProbe(ping) : process_profile(data, ping, get_ok)
    /\ UNCHANGED invalidated

\* the later steps of a submit handler whose lookup missed
SetJobStatus ==
    /\ resp = NoResp
    /\ \E job_id \in JobIds, set_ok \in BOOLEAN : process_profile_set_job_status(job_id, set_ok)
    /\ UNCHANGED invalidated

\* the same against a store that answers
SetJobStatusOk ==
    /\ resp = NoResp
    /\ \E job_id \in JobIds : process_profile_set_job_status(job_id, TRUE)
    /\ UNCHANGED invalidated

ThreadStarts ==
    /\ resp = NoResp
    /\ \E job_id \in JobIds : process_profile_thread_start(job_id)
    /\ UNCHANGED invalidated

Respond ==
    /\ resp = NoResp
    /\ \E job_id \in JobIds : process_profile_return(job_id)
    /\ UNCHANGED invalidated

Status ==
    /\ resp = NoResp
    /\ \E job_id \in RequestedJobIds, ping \in BOOLEAN :
          \E get_ok \in AfterProbe(ping) : get_profile_status(job_id, ping, get_ok)
    /\ UNCHANGED invalidated

Clear ==
    /\ resp = NoResp
    /\ \E data \in ClearBodies, ping \in BOOLEAN :
          \E del_ok \in AfterProbe(ping) : clear_cache(data, ping, del_ok)
    /\ UNCHANGED invalidated

Run == resp = NoResp /\ \E j \in JobIds : TaskRun(j)

Lookup == resp = NoResp /\ \E j \in JobIds : TaskLookup(j)

Store == resp = NoResp /\ \E j \in JobIds : TaskStore(j)

CacheResult == resp = NoResp /\ \E j \in JobIds : TaskCacheResult(j)

Complete == resp = NoResp /\ \E j \in JobIds : TaskComplete(j)

Error == resp = NoResp /\ \E j \in JobIds : TaskError(j)

Expiry == resp = NoResp /\ \E key \in DOMAIN store : Expire(key)

Next ==
    \/ Submit \/ SetJobStatus \/ ThreadStarts \/ Respond
    \/ Status \/ Clear \/ ReadResponse
    \/ Run \/ Lookup \/ Store \/ CacheResult \/ Complete \/ Error
    \/ Expiry

Spec == Init /\ [][Next]_vars

\* the steps of a submit handler after its lookup missed (app.py 316-332)
Handler(job_id) ==
    /\ UNCHANGED invalidated
    /\ \/ \E set_ok \in BOOLEAN : process_profile_set_job_status(job_id, set_ok)
       \/ process_profile_thread_start(job_id)
       \/ process_profile_return(job_id)

\* A handler and a background thread run whenever they can: each of their
\* steps is taken once it is possible (the request thread of the server, and
\* threading.Thread.start at app.py 319-324).  A job record is written by
\* setex with JOB_TTL (redis_client.py 238), so the store drops it in the end
\* unless it is written again.
Fairness ==
    \A j \in JobIds :
        WF_vars(Handler(j)) /\ WF_vars(Task(j)) /\ WF_vars(Expire(job_key(j)))

\* submissions that pass the probe and the jobs they start, against a store
\* that may fail at any later call and job records that expire, under fair
\* scheduling of the background threads
SubmitFair ==
    /\ resp = NoResp
    /\ \E get_ok \in BOOLEAN : process_profile(MinimalData, TRUE, get_ok)
    /\ UNCHANGED invalidated

\* the TTL of a job record runs out
RecordExpiry == resp = NoResp /\ \E job_id \in JobIds : Expire(job_key(job_id))

NextFair ==
    \/ SubmitFair \/ SetJobStatus \/ ThreadStarts \/ Respond \/ ReadResponse
    \/ Run \/ Lookup \/ Store \/ CacheResult \/ Complete \/ Error
    \/ RecordExpiry

\* the collaborators of a run under fair scheduling: all answering, the
\* synthesis handing back a list (the pipeline raises), or every collaborator
\* raising or giving nothing
FairEnvs ==
    CoreEnvs \cup {e \in QuietEnvs : e.search = "raise" /\ e.enrich_ai = "raise"}

InitFair == InitBase /\ stub \in {{env} : env \in FairEnvs}

FairSpec == InitFair /\ [][NextFair]_vars /\ Fairness

\* One job against every collaborator behaviour: the behaviour is fixed at the
\* start and the single submission is handled by a store that answers.
InitTask == InitBase /\ stub \in {{env} : env \in Envs}

SubmitTask ==
    /\ resp = NoResp
    /\ next_id = 1
    /\ \E data \in ValidBodies : process_profile(data, TRUE, TRUE)
    /\ UNCHANGED invalidated

NextTask ==
    \/ SubmitTask \/ SetJobStatusOk \/ ThreadStarts \/ Respond \/ ReadResponse
    \/ Run \/ Lookup \/ Store \/ CacheResult \/ Complete \/ Error

SpecTask == InitTask /\ [][NextTask]_vars

\* Submissions of every kind of body, valid or not, against a store that may
\* fail at any call, with the background threads they start.
SubmitAny ==
    /\ resp = NoResp
    /\ \E data \in {MinimalData} \cup InvalidBodies, ping \in BOOLEAN :
          \E get_ok \in AfterProbe(ping) : process_profile(data, ping, get_ok)
    /\ UNCHANGED invalidated

NextSubmit ==
    \/ SubmitAny \/ SetJobStatus \/ ThreadStarts \/ Respond \/ ReadResponse
    \/ Run \/ Lookup \/ Store \/ CacheResult \/ Complete \/ Error

SpecSubmit == Init /\ [][NextSubmit]_vars

\* Identity Key derivation on its own: two identity inputs are drawn and
\* generate_cache_key is applied to each.
Absent == [t |-> "absent"]

FirstNames == {Absent, Str(<<>>), Str(<<"Ann">>), Str(<<SPACE, "ann", SPACE>>), Str(<<"ANN", SPACE, "M">>)}

LastNames == {Str(<<"Lee">>), Str(<<"LEE", SPACE, SPACE>>)}

LinkedinUrls ==
    {Absent, Str(<<"https://", "LinkedIn.com", "/", "in", "/", "ann">>),
     Str(<<SPACE, "https://", "linkedin.com", "/", "in", "/", "ann">>)}

Emails == {Absent, Str(<<"Ann@X.com">>), Str(<<"ann@x.com", SPACE>>)}

\* the body with the given identity fields, an Absent one left out
identity_input(first, last, linkedin, email) ==
    LET given == [firstName |-> first, lastName |-> last, linkedin |-> linkedin, email |-> email]
    IN  [f \in {g \in IdentityFields : given[g] # Absent} |-> given[f]]

IdentityInputs ==
    {identity_input(a, b, c, d) : a \in FirstNames, b \in LastNames, c \in LinkedinUrls, d \in Emails}

InitKey ==
    /\ args \in [JobIds -> {[data |-> i] : i \in IdentityInputs}]
    /\ local = [j \in JobIds |-> NoJob]
    /\ work = [j \in JobIds |-> NoJob]
    /\ handler = [j \in JobIds |-> NoJob]
    /\ store = [k \in {} |-> NoJob]
    /\ pc = [j \in JobIds |-> "none"]
    /\ hist = [j \in JobIds |-> <<>>]
    /\ next_id = 1
    /\ resp = NoResp
    /\ undisturbed = {}
    /\ invalidated = {}
    /\ stub = {}

DeriveKey(j) ==
    /\ local[j] = NoJob
    /\ local' = [local EXCEPT ![j] = generate_cache_key(args[j].data)]
    /\ UNCHANGED <<store, pc, args, work, handler, hist, next_id, resp, undisturbed, invalidated, stub>>

NextKey == \E j \in JobIds : DeriveKey(j)

SpecKey == InitKey /\ [][NextKey]_vars

\* The cache helpers of utils/redis_client.py on their own: sets and gets of
\* the three cache namespaces and of the job record, each against a store that
\* answers (ok) or raises, and the fetcher over the same store.
UrlKeys == {BlogUrl}

UrlValues == {<<>>, PageText}

SearchQueries == {<<"ann", SPACE, "blog">>}

SearchValues == {<<>>, <<SearchHit>>}

ResultCacheKeys == {generate_cache_key(MinimalData.v).value}

ResultValues == {EmptyDict, get_empty_schema}

\* what a cache helper was called with, whether the store answered, and what
\* the helper returned (a set returns True when the store took the write)
CacheOp(op, key, value, ok, result) ==
    [op |-> op, key |-> key, value |-> value, ok |-> ok, result |-> result]

CacheFrame ==
    UNCHANGED <<pc, args, local, work, handler, hist, next_id, undisturbed, invalidated, stub>>

SetUrl ==
    \E url \in UrlKeys, content \in UrlValues, ok \in BOOLEAN :
        /\ store' = set_cached_url(store, url, content, ok)
        /\ resp' = CacheOp("set_cached_url", url, Str(content), ok, ok)
        /\ CacheFrame

GetUrl ==
    \E url \in UrlKeys, ok \in BOOLEAN :
        /\ resp' = CacheOp("get_cached_url", url, None, ok, get_cached_url(store, url, ok))
        /\ store' = store
        /\ CacheFrame

SetSearch ==
    \E query \in SearchQueries, results \in SearchValues, ok \in BOOLEAN :
        /\ store' = set_cached_search(store, query, max_results_per_query, results, ok)
        /\ resp' = CacheOp("set_cached_search", query, JList(results), ok, ok)
        /\ CacheFrame

GetSearch ==
    \E query \in SearchQueries, ok \in BOOLEAN :
        /\ resp' = CacheOp("get_cached_search", query, None, ok,
                           get_cached_search(store, query, max_results_per_query, ok))
        /\ store' = store
        /\ CacheFrame

SetResult ==
    \E cache_key \in ResultCacheKeys, result \in ResultValues, ok \in BOOLEAN :
        /\ store' = set_cached_result(store, cache_key, result, ok)
        /\ resp' = CacheOp("set_cached_result", cache_key, JDict(result), ok, ok)
        /\ CacheFrame

GetResult ==
    \E cache_key \in ResultCacheKeys, ok \in BOOLEAN :
        /\ resp' = CacheOp("get_cached_result", cache_key, None, ok,
                           get_cached_result(store, cache_key, ok))
        /\ store' = store
        /\ CacheFrame

SetJob ==
    \E status \in {"processing", "complete", "error"}, ok \in BOOLEAN :
        /\ store' = set_job_status(store, 1, status, generate_cache_key(MinimalData.v).value,
                                   IF status = "complete" THEN JDict(get_empty_schema) ELSE None,
                                   IF status = "error" THEN Str(<<"boom">>) ELSE None, ok)
        /\ resp' = CacheOp("set_job_status", 1, Str(<<status>>), ok, ok)
        /\ CacheFrame

GetJob ==
    \E ok \in BOOLEAN :
        /\ resp' = CacheOp("get_job_status", 1, None, ok, get_job_status(store, 1, ok))
        /\ store' = store
        /\ CacheFrame

\* The fetcher and the search aggregator are called by threads that run side by
\* side.  A call is taken step by step, one step for each call of the store it
\* makes: the calls of the providers, which touch nothing the threads share,
\* belong to the step of the store call before them, and the return belongs to
\* the step of the last store call.  While a thread is inside a call, work
\* holds what the call has in hand; a step in which a call returns leaves what
\* it returns in resp, and any other step of a call leaves nothing there.
CallFrame ==
    UNCHANGED <<pc, args, local, handler, hist, next_id, undisturbed, invalidated, stub>>

\* a call of crawl_url_with_fallback as the thread that makes it holds it: its
\* arguments, whether the store answers it, what the providers do, the
\* content in hand and the calls made so far
FetchCall(url, use_cache, ok, p, content, calls) ==
    [op |-> "crawl_url_with_fallback", url |-> url, use_cache |-> use_cache, ok |-> ok,
     providers |-> p, result |-> content, calls |-> calls]

\* web_scraper.py 20-67 in thread j: the LinkedIn test, get_cached_url (30) and,
\* on a miss, the providers.  The call returns here (33, 26 or 76) unless
\* set_cached_url (71) is still to come
crawl_call(j, url, use_cache, ok, p) ==
    /\ work[j] = NoJob
    /\ \E r \in {crawl_url_with_fallback(store, url, use_cache, ok, ok, p)} :
          IF ends_with(r.calls, "set_cached_url")
          THEN /\ work' = [work EXCEPT ![j] =
                              FetchCall(url, use_cache, ok, p, r.content, before_last(r.calls))]
               /\ resp' = NoResp
          ELSE /\ work' = work
               /\ resp' = FetchCall(url, use_cache, ok, p, r.content, r.calls)
    /\ store' = store
    /\ CallFrame

\* web_scraper.py 70-76 in thread j: set_cached_url(url, content) and the return
crawl_write(j) ==
    /\ work[j] # NoJob
    /\ work[j].op = "crawl_url_with_fallback"
    /\ store' = set_cached_url(store, with_scheme(work[j].url), text_of(work[j].result), work[j].ok)
    /\ resp' = [work[j] EXCEPT !.calls = Append(@, Call("set_cached_url", work[j].ok))]
    /\ work' = [work EXCEPT ![j] = NoJob]
    /\ CallFrame

\* crawl_url_with_fallback(url) with the providers all failing or all
\* answering, over a store that answers the call or raises
CrawlOverCache ==
    \E j \in JobIds, url \in UrlKeys, behaviour \in {"empty", "text"}, ok \in BOOLEAN :
        crawl_call(j, url, TRUE, ok, fetch_providers(behaviour))

CrawlOverCacheWrites == \E j \in JobIds : crawl_write(j)

NextCache ==
    \/ SetUrl \/ GetUrl \/ SetSearch \/ GetSearch
    \/ SetResult \/ GetResult \/ SetJob \/ GetJob
    \/ CrawlOverCache \/ CrawlOverCacheWrites

InitCache == InitBase /\ stub = {}

SpecCache == InitCache /\ [][NextCache]_vars

\* The fetcher on its own: crawl_url_with_fallback(url, use_cache) over a URL
\* cache that answers or raises and providers that raise, return nothing or
\* return text; entries of the URL cache appear by earlier fetches or by a
\* direct write, and leave when their TTL runs out.
TwitterUrl == <<"https://", "x.com", "/", "bob">>

LinkedinUrl == <<"https://", "linkedin.com", "/", "in", "/", "ann">>

FetchUrls == {BlogUrl, <<"blog.dev", "/", "ann">>, TwitterUrl,
              LinkedinUrl, <<"https://", "LinkedIn.com", "/", "in", "/", "ann">>}

\* the provider behaviours tried for a URL: the platform endpoints vary only
\* for a microblogging URL (no other URL reaches them), the generic providers
\* only for a URL that is not skipped
FetchCases(url) ==
    IF is_linkedin_url(with_scheme(url))
    THEN {fetch_providers("empty"), fetch_providers("text")}
    ELSE IF is_twitter_url(with_scheme(url))
    THEN {p \in Providers : p.firecrawl = "raise" /\ p.exa = "raise"}
    ELSE {p \in Providers : p.twitter_fetch = "raise" /\ p.dynamodb_tweets = "raise"}

\* use_cache and whether the store answers the calls of one fetch
StoreCases == {<<TRUE, TRUE>>, <<TRUE, FALSE>>, <<FALSE, TRUE>>}

\* the thread next to the one observed fetches the blog with the cache in
\* use, the store and the providers answering
FetchUrlsOf(j) == IF j = 1 THEN FetchUrls ELSE {BlogUrl}

FetchStoreCases(j) == IF j = 1 THEN StoreCases ELSE {<<TRUE, TRUE>>}

FetchCasesOf(j, url) == IF j = 1 THEN FetchCases(url) ELSE {fetch_providers("text")}

Crawl ==
    \E j \in JobIds :
        \E url \in FetchUrlsOf(j), c \in FetchStoreCases(j) :
            \E p \in FetchCasesOf(j, url) : crawl_call(j, url, c[1], c[2], p)

CrawlWrites == \E j \in JobIds : crawl_write(j)

\* an entry of the URL cache written outside the fetcher
SeedUrlCache ==
    \E url \in {BlogUrl, TwitterUrl, LinkedinUrl} :
        /\ store' = set_cached_url(store, url, ResumeText, TRUE)
        /\ resp' = CacheOp("set_cached_url", url, Str(ResumeText), TRUE, TRUE)
        /\ CacheFrame

\* the TTL of an entry runs out
ExpireUrl ==
    \E key \in DOMAIN store :
        /\ store' = delete(store, key)
        /\ resp' = NoResp
        /\ CacheFrame

NextFetch == Crawl \/ CrawlWrites \/ SeedUrlCache \/ ExpireUrl

SpecFetch == InitCache /\ [][NextFetch]_vars

\* The search aggregator on its own: search_for_person_online(queries) over a
\* search cache that answers or raises and a provider that, query by query,
\* raises or returns a list; cache entries leave when their TTL runs out.
QueryBlog == <<"ann", SPACE, "blog">>

QueryHobbies == <<"ann", SPACE, "hobbies">>

MaxQueryListLen == 7

\* one list longer than the cap, whose last query is asked nowhere else
LongQueryList ==
    <<QueryBlog, QueryHobbies, QueryBlog, QueryHobbies, QueryBlog, QueryHobbies, <<"bob">>>>

QueryLists ==
    {<<QueryBlog>>, <<<<"Ann", SPACE, "blog", SPACE>>>>, <<QueryBlog, QueryHobbies>>, LongQueryList}

\* the provider behaviours tried for a list of queries: every combination for
\* a short list; for the long one the same behaviour for every query, or one
\* query that raises among queries that return results
ProviderCases(queries) ==
    IF Len(queries) <= 2
    THEN {p \in [1..MaxQueryListLen -> SearchKinds] :
             \A i \in 1..MaxQueryListLen : i > Len(queries) => p[i] = "empty"}
    ELSE {[i \in 1..MaxQueryListLen |-> kind] : kind \in SearchKinds}
         \cup {[i \in 1..MaxQueryListLen |->
                   IF i = k THEN "raise" ELSE IF i % 2 = 1 THEN "items" ELSE "mixed"] :
                k \in 1..MaxQueryListLen}

\* What a thread holds inside search_for_person_online (lines 103-218): its
\* arguments, whether the store answers the call, what the provider does
\* query by query, the number of queries it is done with (i), all_results and
\* seen_urls (found), the calls made so far, the list each query gave
\* (yielded), and a provider's list that waits to be written to the search
\* cache (pending, None when there is none)
SearchCallState(queries, use_cache, ok, provider) ==
    [op |-> "search_for_person_online", queries |-> queries, use_cache |-> use_cache,
     ok |-> ok, provider |-> provider, i |-> 0, found |-> NothingFound,
     calls |-> <<>>, yielded |-> <<>>, pending |-> None]

\* line 218: what the call leaves when it returns all_results
SearchReturn(w) ==
    [op |-> w.op, queries |-> w.queries, use_cache |-> w.use_cache, ok |-> w.ok,
     provider |-> w.provider, results |-> w.found.all_results, calls |-> w.calls,
     yielded |-> w.yielded]

\* the query the loop of w is at
search_at(w) == w.queries[w.i + 1]

\* a loop that ends at the first query whose search raises
search_after_abort(w, results_data, calls) ==
    [w EXCEPT !.i = IF \E k \in 1..Len(calls) : calls[k].call = "firecrawl.search" /\ ~calls[k].ok
                    THEN Len(w.queries) ELSE @ + 1,
              !.pending = None,
              !.found = collect_results(results_data, @.seen_urls, @.all_results),
              !.calls = @ \o calls_at(calls, w.i + 1),
              !.yielded = Append(@, results_data)]

\* lines 177-216, with the list of the query in hand (an empty one when the
\* search raised): the results are gone through and the loop goes to the next
\* query; calls are the calls made for the query since the last step
search_after(w, results_data, calls) ==
    [w EXCEPT !.i = @ + 1,
              !.pending = None,
              !.found = collect_results(results_data, @.seen_urls, @.all_results),
              !.calls = @ \o calls_at(calls, w.i + 1),
              !.yielded = Append(@, results_data)]

\* lines 111-136 for the query at hand, r being what the lookup and the
\* provider gave: the list is used at once when the cache gave it or when
\* nothing is to be written, and waits for its write (173) otherwise
search_turn(w, r) ==
    IF ends_with(r.calls, "set_cached_search")
    THEN [w EXCEPT !.pending = JList(r.results_data),
                   !.calls = @ \o calls_at(before_last(r.calls), w.i + 1)]
    ELSE search_after(w, r.results_data, r.calls)

\* thread j goes on with w, or returns (218) when the loop of line 110 is over
search_goes_on(j, w) ==
    IF w.i < Len(queries_searched(w.queries))
    THEN /\ work' = [work EXCEPT ![j] = w]
         /\ resp' = NoResp
    ELSE /\ work' = [work EXCEPT ![j] = NoJob]
         /\ resp' = SearchReturn(w)

\* web_scraper.py 97-110 in thread j: the call begins
search_for_person_online(j, queries, use_cache, ok, provider) ==
    /\ work[j] = NoJob
    /\ search_goes_on(j, SearchCallState(queries, use_cache, ok, provider))
    /\ store' = store
    /\ CallFrame

\* web_scraper.py 111-136 in thread j: get_cached_search (117) for the query at
\* hand and, on a miss, firecrawl.search (129)
search_lookup(j) ==
    /\ work[j] # NoJob
    /\ work[j].op = "search_for_person_online"
    /\ work[j].pending = None
    /\ \E r \in {search_query(store, search_at(work[j]), max_results_per_query,
                               work[j].use_cache, work[j].ok, work[j].ok,
                               work[j].provider[work[j].i + 1])} :
          \E w \in {search_turn(work[j], r)} : search_goes_on(j, w)
    /\ store' = store
    /\ CallFrame

\* web_scraper.py 172-216 in thread j: set_cached_search (173) of the list that
\* waits, and the loop over that list
search_write(j) ==
    /\ work[j] # NoJob
    /\ work[j].op = "search_for_person_online"
    /\ work[j].pending # None
    /\ store' = set_cached_search(store, search_at(work[j]), max_results_per_query,
                                  work[j].pending.v, work[j].ok)
    /\ \E w \in {search_after(work[j], work[j].pending.v,
                               <<SearchCall("set_cached_search", work[j].ok, search_at(work[j]))>>)} :
          search_goes_on(j, w)
    /\ CallFrame

\* the thread next to the one observed searches one query with the cache in
\* use, the store and the provider answering
SearchQueryLists(j) == IF j = 1 THEN QueryLists ELSE {<<QueryBlog>>}

SearchStoreCases(j) == IF j = 1 THEN StoreCases ELSE {<<TRUE, TRUE>>}

ProviderCasesOf(j, queries) ==
    IF j = 1 THEN ProviderCases(queries) ELSE {[i \in 1..MaxQueryListLen |-> "items"]}

Search ==
    \E j \in JobIds :
        \E queries \in SearchQueryLists(j), c \in SearchStoreCases(j) :
            \E provider \in ProviderCasesOf(j, queries) :
                search_for_person_online(j, queries, c[1], c[2], provider)

SearchLooksUp == \E j \in JobIds : search_lookup(j)

SearchWrites == \E j \in JobIds : search_write(j)

NextSearch == Search \/ SearchLooksUp \/ SearchWrites \/ ExpireUrl

SpecSearch == InitCache /\ [][NextSearch]_vars

\* crawl_all_links on its own: lists of up to MaxLinks links with repeated and
\* empty links, a LinkedIn and a microblogging URL among them, under providers
\* that answer or fail, over a URL cache whose entries appear by the fetches
\* of the call or by a direct write, and leave when their TTL runs out.
MaxLinks == 3

CrawlLinks == {<<>>, BlogUrl, TwitterUrl, LinkedinUrl}

LinkLists == UNION {[1..n -> CrawlLinks] : n \in 0..MaxLinks}

\* What a thread holds inside crawl_all_links (lines 81-94): its argument, what
\* the providers do, the number of links the loop has passed (k), seen_urls,
\* crawled_content (result), the links handed to the fetcher with what it
\* returned (fetched), and a content that waits to be written to the URL
\* cache inside the fetcher (pending, None when there is none)
CrawlAllState(links, behaviour) ==
    [op |-> "crawl_all_links", links |-> links, behaviour |-> behaviour, k |-> 0,
     seen_urls |-> {}, result |-> <<>>, fetched |-> <<>>, pending |-> None]

\* line 94: what the call leaves when it returns crawled_content
CrawlAllReturn(w) ==
    [op |-> w.op, links |-> w.links, behaviour |-> w.behaviour, fetched |-> w.fetched,
     result |-> w.result]

\* lines 86-92, with the content of the link at hand (w.links[w.k + 1])
crawl_all_after(w, content) ==
    [w EXCEPT !.k = @ + 1,
              !.pending = None,
              !.seen_urls = @ \cup {w.links[w.k + 1]},
              !.result = @ \o crawled_item(w.links[w.k + 1], content),
              !.fetched = Append(@, [url |-> w.links[w.k + 1], content |-> content])]

\* line 87 for the link at hand, r being what the lookup and the providers of
\* the fetcher gave
crawl_all_turn(w, r) ==
    IF ends_with(r.calls, "set_cached_url")
    THEN [w EXCEPT !.pending = r.content]
    ELSE crawl_all_after(w, text_of(r.content))

\* lines 84-85 and 94: thread j goes to the next link it fetches, or returns
crawl_all_goes_on(j, w) ==
    \E k \in {crawl_at(w.links, w.k, w.seen_urls)} :
        IF k < Len(w.links)
        THEN /\ work' = [work EXCEPT ![j] = [w EXCEPT !.k = k]]
             /\ resp' = NoResp
        ELSE /\ work' = [work EXCEPT ![j] = NoJob]
             /\ resp' = CrawlAllReturn(w)

\* web_scraper.py 79-85 in thread j: the call begins
crawl_all_links(j, links, behaviour) ==
    /\ work[j] = NoJob
    /\ crawl_all_goes_on(j, CrawlAllState(links, behaviour))
    /\ store' = store
    /\ CallFrame

\* line 87 in thread j: crawl_url_with_fallback(link) up to its write, the
\* store answering
crawl_all_lookup(j) ==
    /\ work[j] # NoJob
    /\ work[j].op = "crawl_all_links"
    /\ work[j].pending = None
    /\ \E r \in {crawl_url_with_fallback(store, work[j].links[work[j].k + 1], TRUE, TRUE, TRUE,
                                           fetch_providers(work[j].behaviour))} :
          \E w \in {crawl_all_turn(work[j], r)} : crawl_all_goes_on(j, w)
    /\ store' = store
    /\ CallFrame

\* the write of the fetcher (web_scraper.py 71) in thread j, and lines 88-92
crawl_all_write(j) ==
    /\ work[j] # NoJob
    /\ work[j].op = "crawl_all_links"
    /\ work[j].pending # None
    /\ store' = set_cached_url(store, with_scheme(work[j].links[work[j].k + 1]),
                               text_of(work[j].pending), TRUE)
    /\ \E w \in {crawl_all_after(work[j], text_of(work[j].pending))} : crawl_all_goes_on(j, w)
    /\ CallFrame

\* the thread next to the one observed crawls the blog, the providers answering
CrawlLinkLists(j) == IF j = 1 THEN LinkLists ELSE {<<BlogUrl>>}

CrawlBehaviours(j) == IF j = 1 THEN {"empty", "text"} ELSE {"text"}

CrawlAll ==
    \E j \in JobIds :
        \E links \in CrawlLinkLists(j), behaviour \in CrawlBehaviours(j) :
            crawl_all_links(j, links, behaviour)

CrawlAllLooksUp == \E j \in JobIds : crawl_all_lookup(j)

CrawlAllWrites == \E j \in JobIds : crawl_all_write(j)

NextCrawlAll == CrawlAll \/ CrawlAllLooksUp \/ CrawlAllWrites \/ SeedUrlCache \/ ExpireUrl

SpecCrawlAll == InitCache /\ [][NextCrawlAll]_vars

\* The cache clear over a store that holds entries of every namespace: URL and
\* search entries, a job record, and result entries of two identities.
SeedResult ==
    \E data \in ClearBodies, result \in ResultValues :
        /\ store' = set_cached_result(store, generate_cache_key(data.v).value, result, TRUE)
        /\ resp' = CacheOp("set_cached_result", generate_cache_key(data.v).value,
                           JDict(result), TRUE, TRUE)
        /\ CacheFrame

ClearStore ==
    /\ \E data \in ClearBodies \cup {AliasData, NoNameData}, ping \in BOOLEAN :
          \E del_ok \in AfterProbe(ping) : clear_cache(data, ping, del_ok)
    /\ UNCHANGED invalidated

NextClear == SetUrl \/ SetSearch \/ SetJob \/ SeedResult \/ ClearStore

SpecClear == InitCache /\ [][NextClear]_vars

\* Job records in time: status writes for two jobs, the status request, and
\* time passing in the store, half a job TTL at a step; the ttl of an entry is
\* the time it has left, and an entry with no time left is gone.
HalfJobTtl == JOB_TTL \div 2

elapse(s, seconds) ==
    [k \in {x \in DOMAIN s : s[x].ttl > seconds} |->
        [value |-> s[k].value, ttl |-> s[k].ttl - seconds]]

Elapse ==
    /\ store' = elapse(store, HalfJobTtl)
    /\ resp' = [op |-> "elapse", seconds |-> HalfJobTtl]
    /\ CacheFrame

WriteJob ==
    \E job_id \in JobIds, status \in {"processing", "complete", "error"}, ok \in BOOLEAN :
        /\ store' = set_job_status(store, job_id, status, generate_cache_key(MinimalData.v).value,
                                   IF status = "complete" THEN JDict(get_empty_schema) ELSE None,
                                   IF status = "error" THEN Str(<<"boom">>) ELSE None, ok)
        /\ resp' = CacheOp("set_job_status", job_id, Str(<<status>>), ok, ok)
        /\ CacheFrame

StatusOfJob ==
    /\ \E job_id \in JobIds, ping \in BOOLEAN :
          \E get_ok \in AfterProbe(ping) : get_profile_status(job_id, ping, get_ok)
    /\ UNCHANGED invalidated

NextTtl == WriteJob \/ StatusOfJob \/ Elapse

SpecTtl == InitCache /\ [][NextTtl]_vars

\* Submissions of one identity with different other fields, against a store
\* that answers, with the jobs they start.
TwinBodies == {MinimalData, TwinData}

SubmitTwin ==
    /\ resp = NoResp
    /\ \E data \in TwinBodies : process_profile(data, TRUE, TRUE)
    /\ UNCHANGED invalidated

NextTwin ==
    \/ SubmitTwin \/ SetJobStatusOk \/ ThreadStarts \/ Respond \/ ReadResponse
    \/ Run \/ Lookup \/ Store \/ CacheResult \/ Complete \/ Error

SpecTwin == Init /\ [][NextTwin]_vars

\* Submissions and cache clears of the same identities with the jobs they start;
\* `invalidated` remembers the keys cleared since their last submission.
SubmitTracked ==
    /\ resp = NoResp
    /\ \E data \in {MinimalData}, ping \in BOOLEAN :
          \E get_ok \in AfterProbe(ping) :
              /\ process_profile(data, ping, get_ok)
              /\ invalidated' = IF process_profile_route(store, data, ping, get_ok).kind # "early"
                                THEN invalidated \ {generate_cache_key(data.v).value}
                                ELSE invalidated

ClearTracked ==
    /\ resp = NoResp
    /\ \E data \in ClearBodies, ping \in BOOLEAN :
          \E del_ok \in AfterProbe(ping) :
              /\ clear_cache(data, ping, del_ok)
              /\ invalidated' = IF resp'.code = 200
                                THEN invalidated \cup {generate_cache_key(data.v).value}
                                ELSE invalidated

NextInvalidate ==
    \/ SubmitTracked \/ SetJobStatus \/ ThreadStarts \/ Respond
    \/ ClearTracked \/ ReadResponse
    \/ Run \/ Lookup \/ Store \/ CacheResult \/ Complete \/ Error

SpecInvalidate == Init /\ [][NextInvalidate]_vars

-----------------------------------------------------------------------------
(* What the store holds *)

HasRecord(job_id) == job_key(job_id) \in DOMAIN store

\* the dict stored under job:<job_id>
JobRecord(job_id) == json_loads(store[job_key(job_id)].value).v

StoredStatus(job_id) == IF HasRecord(job_id) THEN JobRecord(job_id).status ELSE "absent"

CacheKeys == {k \in DOMAIN store : k[1] = KEY_PREFIX_CACHE}

\* the dict stored under a Result Cache key
CachedResult(cache_key) == json_loads(store[cache_key].value).v

Terminal == {"complete", "error"}

-----------------------------------------------------------------------------
(* Job lifecycle *)

IsStatusWrite(event, statuses) == event.op = "set_job_status" /\ event.status \in statuses

\* the status writes of one job: `processing` is the first event and nothing
\* else, a terminal write is the last event
WritesInOrder(h) ==
    \A i \in 1..Len(h) :
        /\ IsStatusWrite(h[i], {"processing"}) <=> i = 1
        /\ IsStatusWrite(h[i], Terminal) => i = Len(h)

\* the record of job_id over one step, as long as it exists before and after
RecordStep(job_id) ==
    (HasRecord(job_id) /\ HasRecord(job_id)') =>
        \/ store'[job_key(job_id)] = store[job_key(job_id)]
        \/ /\ StoredStatus(job_id) = "processing"
           /\ StoredStatus(job_id)' \in Terminal

\* C1: under every interleaving of submit, status, invalidate, expiry and the
\* background threads, the stored status of a job_id changes only from
\* processing to complete or from processing to error; a record that is
\* complete or error is never written again (the job's writes are one
\* `processing` write first and at most one terminal write last), so it stays
\* as it is for as long as it exists.
C1_StatusOnlyAdvances ==
    [][\A job_id \in JobIds : RecordStep(job_id) /\ WritesInOrder(hist'[job_id])]_vars

\* two jobs have run concurrently, one stored complete and the other error
C1_Witness ==
    \E i, j \in JobIds :
        /\ StoredStatus(i) = "complete" /\ StoredStatus(j) = "error"
        /\ pc[i] = "done" /\ pc[j] = "done"

-----------------------------------------------------------------------------
(* Submit *)

\* every store call the handler made was answered
AllAnswered(response) == \A i \in 1..Len(response.calls) : response.calls[i].ok

\* a body submit takes past validation
ValidSubmission(data) ==
    /\ data.t = "dict"
    /\ ~falsy_json(data)
    /\ ~no_name(data.v)
    /\ ~generate_cache_key(data.v).raised

IdentityKey(data) == generate_cache_key(data.v).value

\* the step in which a submit handler answers straight from its checks or its
\* lookup (503, 400, 500, or 200 from the Result Cache)
IsSubmitAnswer ==
    resp = NoResp /\ resp' # NoResp /\ resp'.op = "process_profile" /\ handler' = handler

\* the step in which the lookup of a submit handler misses and job_id is drawn
IsSubmitMiss(job_id) == handler[job_id] = NoJob /\ handler'[job_id] # NoJob

\* the step in which the handler of job_id writes the processing record
IsProcessingWrite(job_id) ==
    /\ handler[job_id] # NoJob /\ handler[job_id].at = "set_job_status"
    /\ handler'[job_id] # handler[job_id]

\* the step in which the thread of job_id is started
IsThreadStart(job_id) == pc[job_id] = "none" /\ pc'[job_id] # "none"

\* the step in which the handler of job_id returns its response
IsAccept(job_id) == handler[job_id] # NoJob /\ handler'[job_id] = NoJob

\* the store call the handler of job_id made last
LastCall(job_id) == handler[job_id].calls[Len(handler[job_id].calls)]

\* C2: a submission that the store answers and whose Identity Key has no
\* Result Cache entry at the lookup is not answered from the cache: its
\* handler draws a job_id, writes job:<job_id> with status processing (job TTL)
\* while no thread of that job exists, then starts the thread, once, and then
\* answers 202 {job_id, processing, cached: false}; for every job the
\* processing write is the first event, the thread start the second and only
\* one, so the thread's terminal write comes after the processing write.
C2_MissCreatesJob ==
    /\ [](\A j \in JobIds :
            /\ pc[j] # "none" <=> Len(hist[j]) >= 2
            /\ hist[j] # <<>> =>
                  /\ IsStatusWrite(hist[j][1], {"processing"})
                  /\ \A i \in 1..Len(hist[j]) : hist[j][i] = ThreadStart <=> i = 2
                  /\ \A i \in 1..Len(hist[j]) : IsStatusWrite(hist[j][i], Terminal) => i > 2)
    /\ [][/\ ( /\ IsSubmitAnswer
               /\ AllAnswered(resp')
               /\ ValidSubmission(resp'.request) )
             => IdentityKey(resp'.request) \in DOMAIN store
          /\ \A j \in JobIds :
                /\ IsSubmitMiss(j) =>
                      /\ j = next_id /\ pc[j] = "none" /\ hist[j] = <<>> /\ ~HasRecord(j)
                      /\ store' = store /\ resp' = NoResp
                /\ (IsProcessingWrite(j) /\ LastCall(j)'.ok) =>
                      /\ pc[j] = "none" /\ hist[j] = <<>>
                      /\ hist'[j] = <<StatusWrite("processing", TRUE)>>
                      /\ JobRecord(j)' = [status |-> "processing", cache_key |-> args[j].cache_key]
                      /\ store'[job_key(j)].ttl = JOB_TTL
                /\ IsThreadStart(j) =>
                      /\ Len(hist[j]) = 1
                      /\ hist'[j] = Append(hist[j], ThreadStart)
                      /\ pc'[j] = "start"
                      /\ store' = store
                /\ IsAccept(j) =>
                      /\ pc[j] # "none"
                      /\ resp'.op = "process_profile" /\ resp'.code = 202
                      /\ resp'.request = JDict(args[j].data)
                      /\ resp'.body = [job_id |-> j, status |-> "processing", cached |-> FALSE]
                      /\ store' = store /\ pc' = pc /\ hist' = hist]_vars

\* a second submission missed the cache while the first job's record is
\* terminal, and has been answered 202 with its record written
C2_Witness ==
    /\ resp.op = "process_profile" /\ resp.code = 202 /\ AllAnswered(resp)
    /\ resp.body.job_id = 2
    /\ StoredStatus(1) \in Terminal
    /\ StoredStatus(2) = "processing"
    /\ hist[2] = <<StatusWrite("processing", TRUE), ThreadStart>>

\* C3: when the Result Cache holds an entry under the submission's Identity Key
\* at the lookup (the store answers the probe and the lookup), submit answers
\* 200 with a fresh job_id, status complete, cached true and exactly the cached
\* result; it starts no thread and makes no further store call.
C3_HitAnswersFromCache ==
    [][/\ ( /\ IsSubmitAnswer
            /\ AllAnswered(resp')
            /\ ValidSubmission(resp'.request)
            /\ IdentityKey(resp'.request) \in DOMAIN store )
          => /\ resp'.code = 200
             /\ resp'.body = [job_id |-> next_id, status |-> "complete", cached |-> TRUE,
                              result |-> CachedResult(IdentityKey(resp'.request))]
             /\ resp'.calls = <<Call("ping", TRUE), Call("get", TRUE)>>
             /\ next_id' = next_id + 1
             /\ pc[next_id] = "none" /\ hist[next_id] = <<>> /\ ~HasRecord(next_id)
             /\ pc' = pc /\ hist' = hist /\ store' = store
       /\ \A j \in JobIds :
             (IsSubmitMiss(j) /\ AllAnswered(handler'[j])) =>
                 args'[j].cache_key \notin DOMAIN store]_vars

\* a submission has been answered with the result cached for its identity by
\* the job before it
C3_Witness ==
    /\ resp.op = "process_profile" /\ resp.code = 200
    /\ resp.request = MinimalData
    /\ resp.body.cached
    /\ resp.body.job_id = 2
    /\ pc[1] = "done" /\ pc[2] = "none"
    /\ resp.body.result = local[1].value
    /\ resp.body.result.basics.name = <<"Ann", SPACE, "Lee">>

\* C4: the thread writes the Result Cache entry before it writes status
\* complete (the cache write is the event just before the complete write); a
\* job whose cache write the store accepted and whose entry has since been
\* neither invalidated nor expired still has its entry, and once its record is
\* complete a following submission of the same identity that the store answers
\* gets 200 {complete, cached: true} and starts no thread.
C4_CacheBeforeComplete ==
    /\ [](\A j \in JobIds : \A i \in 1..Len(hist[j]) :
            IsStatusWrite(hist[j][i], {"complete"}) =>
                i > 1 /\ hist[j][i - 1].op = "set_cached_result")
    /\ [](\A j \in undisturbed : args[j].cache_key \in DOMAIN store)
    /\ [][\A j \in undisturbed :
            StoredStatus(j) = "complete" =>
                /\ ( /\ IsSubmitAnswer
                     /\ AllAnswered(resp')
                     /\ ValidSubmission(resp'.request)
                     /\ IdentityKey(resp'.request) = args[j].cache_key )
                   => /\ resp'.code = 200
                      /\ resp'.body.status = "complete"
                      /\ resp'.body.cached
                      /\ pc' = pc /\ hist' = hist
                /\ \A k \in JobIds :
                      (IsSubmitMiss(k) /\ AllAnswered(handler'[k])) =>
                          args'[k].cache_key # args[j].cache_key]_vars

\* a job is complete with its cache entry undisturbed and a submission of its
\* identity has just been answered from the cache
C4_Witness ==
    \E j \in undisturbed :
        /\ StoredStatus(j) = "complete"
        /\ resp.op = "process_profile" /\ resp.code = 200
        /\ IdentityKey(resp.request) = args[j].cache_key
        /\ resp.body.job_id # j

\* C5: when the pipeline of a job raised, its thread issues exactly one more
\* write, the error status carrying str(e): it issues no cache write and no
\* complete write, its record is never complete, and when the store accepted
\* the write the record is {status: error, cache_key, error: message} and has
\* no result for as long as it exists.
C5_FailureWritesErrorOnce ==
    \A j \in JobIds :
        (local[j] # NoJob /\ local[j].raised) =>
            /\ \A i \in 1..Len(hist[j]) :
                  hist[j][i].op # "set_cached_result" /\ ~IsStatusWrite(hist[j][i], {"complete"})
            /\ j \notin undisturbed
            /\ StoredStatus(j) # "complete"
            /\ pc[j] \in {"error", "done"}
            /\ pc[j] = "error" => Len(hist[j]) = 2
            /\ pc[j] = "done" =>
                  /\ Len(hist[j]) = 3
                  /\ IsStatusWrite(hist[j][3], {"error"})
                  /\ (hist[j][3].ok /\ HasRecord(j)) =>
                        JobRecord(j) = [status |-> "error", cache_key |-> args[j].cache_key,
                                        error |-> local[j].error]

\* a job whose synthesis reply was a list is stored as error with the TypeError's text
C5_Witness ==
    \E j \in JobIds :
        /\ local[j] # NoJob /\ local[j].raised
        /\ StoredStatus(j) = "error"
        /\ JobRecord(j).error = <<"list indices must be integers or slices, not str">>

-----------------------------------------------------------------------------
(* Status *)

\* C10: when the store answers the probe and the lookup, status(job_id) is 404
\* {error: Job not found, job_id} exactly when the store holds no job:<job_id>
\* (never created, or expired); otherwise it is 200 with job_id and the stored
\* status, with result (the stored result) exactly when the status is complete
\* and error (the stored message) exactly when the status is error.
C10_StatusReportsRecord ==
    (resp.op = "get_profile_status" /\ AllAnswered(resp)) =>
        IF ~HasRecord(resp.request)
        THEN /\ resp.code = 404
             /\ resp.body = [error |-> <<"Job not found">>, job_id |-> resp.request]
        ELSE /\ resp.code = 200
             /\ resp.body.job_id = resp.request
             /\ resp.body.status = StoredStatus(resp.request)
             /\ "result" \in DOMAIN resp.body <=> StoredStatus(resp.request) = "complete"
             /\ "error" \in DOMAIN resp.body <=> StoredStatus(resp.request) = "error"
             /\ "result" \in DOMAIN resp.body => resp.body.result = JobRecord(resp.request).result
             /\ "error" \in DOMAIN resp.body => resp.body.error = JobRecord(resp.request).error

\* status answers 404 for a job that ran to its end and whose record has expired
C10_Witness ==
    /\ resp.op = "get_profile_status" /\ AllAnswered(resp)
    /\ resp.code = 404
    /\ resp.request \in JobIds
    /\ pc[resp.request] = "done"
    /\ \E i \in 1..Len(hist[resp.request]) :
          IsStatusWrite(hist[resp.request][i], Terminal) /\ hist[resp.request][i].ok

-----------------------------------------------------------------------------
(* Progress of the background thread *)

\* submit has started the thread of job_id (its 202 follows)
Accepted(job_id) == pc[job_id] # "none"

LastEvent(job_id) == hist[job_id][Len(hist[job_id])]

\* C6 as stated: every job accepted with 202 eventually has its record leave
\* processing for complete or error, whatever the collaborators and the store
\* return or raise.
C6_RecordLeavesProcessing ==
    \A j \in JobIds :
        (Accepted(j) /\ StoredStatus(j) = "processing") ~> (StoredStatus(j) \in Terminal)

\* C6, amended: under fair scheduling every accepted job's thread comes to its
\* end having issued its one terminal write, whatever the collaborators return
\* or raise; the record then is complete or error if the store accepted that
\* write, and if the store refused it (set_job_status swallows the failure) the
\* record is still processing for as long as it exists, which is until its
\* TTL expires: no record stays processing forever.
C6_TerminalWriteIssued ==
    /\ \A j \in JobIds : Accepted(j) ~> (pc[j] = "done" /\ StoredStatus(j) # "processing")
    /\ [](\A j \in JobIds :
            pc[j] = "done" =>
                /\ IsStatusWrite(LastEvent(j), Terminal)
                /\ HasRecord(j) =>
                      IF LastEvent(j).ok
                      THEN StoredStatus(j) = LastEvent(j).status
                      ELSE StoredStatus(j) = "processing")

\* a thread has ended after the store refused its terminal write: the record
\* is still processing
C6_Witness ==
    \E j \in JobIds :
        /\ pc[j] = "done"
        /\ ~LastEvent(j).ok
        /\ StoredStatus(j) = "processing"

-----------------------------------------------------------------------------
(* The result of a job *)

LinkFields == {"linkedin", "github", "twitter", "portfolio", "resume"}

\* a name, and linkedin, github, twitter, portfolio, resume and extraLinks empty
IsMinimalInput(data) ==
    /\ ~no_name(data)
    /\ \A f \in LinkFields : url_field(data, f) = <<>>
    /\ dict_get_default(data, "extraLinks", <<>>) = <<>>

\* the seed record of a job
SeedOf(j) ==
    build_initial_schema_from_input(args[j].data,
                                    dict_get_default(args[j].data, "jobHistory", <<>>),
                                    dict_get_default(args[j].data, "education", <<>>))

\* C7: for an input with a name and every link empty, when every fetch, search
\* and AI collaborator returns empty or fails, the pipeline does not raise: the
\* job never takes the error path, its one terminal write is `complete`, and
\* the stored result has the four required groups, each the seed's or the
\* empty default, and an empty extra.
C7_MinimalQuietCompletes ==
    \A j \in JobIds :
        (args[j] # NoJob /\ IsMinimalInput(args[j].data) /\ stub \subseteq QuietEnvs) =>
            /\ pc[j] # "error"
            /\ StoredStatus(j) # "error"
            /\ \A i \in 1..Len(hist[j]) : ~IsStatusWrite(hist[j][i], {"error"})
            /\ local[j] # NoJob =>
                  /\ ~local[j].raised
                  /\ RequiredGroups \subseteq DOMAIN local[j].value
            /\ pc[j] = "done" => IsStatusWrite(LastEvent(j), {"complete"})
            /\ StoredStatus(j) = "complete" =>
                  /\ \A g \in RequiredGroups :
                        /\ g \in DOMAIN JobRecord(j).result
                        /\ JobRecord(j).result[g] \in {SeedOf(j)[g], get_empty_schema[g]}
                  /\ JobRecord(j).result.extra = <<>>

\* a minimal input has completed although the synthesis call raised
C7_Witness ==
    \E j \in JobIds :
        /\ args[j] # NoJob /\ IsMinimalInput(args[j].data)
        /\ stub \subseteq QuietEnvs
        /\ \E env \in stub : env.enrich_ai = "raise"
        /\ StoredStatus(j) = "complete"
        /\ JobRecord(j).result.basics.name = <<"Ann", SPACE, "Lee">>

ResultKeys == RequiredGroups \cup {"extra"}

\* the pipeline of job j got as far as the synthesis call
ReachedSynthesis(j) ==
    ~(local[j].raised /\ local[j].error = <<"'list' object has no attribute 'get'">>)

\* C8: every result stored with status complete and every value in the Result
\* Cache has the keys basics, professional_dna, personal_dna,
\* identity_mapping_vitals and extra; when the synthesis returns an object that
\* lacks one of the four groups the pipeline does not raise and the result
\* holds get_empty_schema()'s value for that group.
C8_RequiredGroupsPresent ==
    /\ \A j \in JobIds :
          StoredStatus(j) = "complete" => ResultKeys \subseteq DOMAIN JobRecord(j).result
    /\ \A k \in CacheKeys : ResultKeys \subseteq DOMAIN CachedResult(k)
    /\ \A j \in JobIds : \A env \in stub :
          LET reply == enrich_reply(env.enrich_ai, SeedOf(j))
          IN  ( /\ local[j] # NoJob
                /\ ReachedSynthesis(j)
                /\ ~reply.raises /\ reply.parses_at > 0 /\ reply.value.t = "dict" )
              => /\ ~local[j].raised
                 /\ \A g \in RequiredGroups \ DOMAIN reply.value.v :
                       /\ g \in DOMAIN local[j].value
                       /\ local[j].value[g] = get_empty_schema[g]

\* a job is complete after the synthesis returned only basics and extra: the
\* other groups are the empty defaults
C8_Witness ==
    \E j \in JobIds :
        /\ \E env \in stub : env.enrich_ai = "object_partial"
        /\ StoredStatus(j) = "complete"
        /\ JobRecord(j).result.personal_dna = get_empty_schema.personal_dna
        /\ args[j].cache_key \in CacheKeys
        /\ CachedResult(args[j].cache_key).professional_dna = get_empty_schema.professional_dna

\* C9 as stated: for every job that reaches complete, result.basics.name is the
\* seed name f"{firstName} {lastName}".strip(), whatever the synthesis returns.
C9_SeedNameRetained ==
    \A j \in JobIds :
        StoredStatus(j) = "complete" => JobRecord(j).result.basics.name = seed_name(args[j].data)


-----------------------------------------------------------------------------
(* Validation and availability of submit *)

\* the step is a submit and leaves its response
IsSubmitStep == resp = NoResp /\ resp' # NoResp /\ resp'.op = "process_profile"

\* the step wrote nothing to the store and started no thread
NothingCreated == store' = store /\ pc' = pc /\ hist' = hist /\ args' = args

NameFields == {"firstName", "lastName"}

\* a body that is missing or unparsable (get_json(silent=True) gives None) or
\* empty, or one in which firstName and lastName are both absent or empty: a
\* JSON object without a non-empty name, or a parsed body that is not an
\* object and so has neither field
InvalidSubmission(data) ==
    \/ data \in {BadJson, None, JDict(EmptyDict), JList(<<>>)}
    \/ data.t = "list"
    \/ /\ data.t = "dict"
       /\ \A f \in NameFields : f \notin DOMAIN data.v \/ data.v[f] \in {None, Str(<<>>)}

\* C11: with the store answering the probe, a submission whose body is missing,
\* empty or unparsable, or in which firstName and lastName are both absent or
\* empty, is answered 400 in the request itself after the probe alone; the
\* step writes no job record and no cache entry and starts no thread.
C11_InvalidAnswered400 ==
    [][ (IsSubmitStep /\ resp'.calls[1].ok /\ InvalidSubmission(resp'.request))
            => /\ resp'.code = 400
               /\ Len(resp'.calls) = 1
               /\ NothingCreated ]_vars

\* C12: when the liveness probe fails at the start of submit, the answer is 503
\* whatever the body is, no further store call is made, no job record is
\* written and no thread is started.
C12_ProbeFailureAnswers503 ==
    [][ (IsSubmitStep /\ ~resp'.calls[1].ok)
            => /\ resp'.code = 503
               /\ resp'.calls = <<Call("ping", FALSE)>>
               /\ NothingCreated
               /\ next_id' = next_id ]_vars

\* a valid body and an unparsable one were each answered 503: here the valid one,
\* while the cache holds the result it would have been answered with
C12_Witness ==
    /\ resp.op = "process_profile"
    /\ resp.request = MinimalData
    /\ resp.code = 503
    /\ IdentityKey(MinimalData) \in CacheKeys

-----------------------------------------------------------------------------
(* Cache clear *)

\* C13 as stated: after a cache clear of an identity has returned, the next
\* submission of that identity (the store answering its calls) is answered 202
\* with status processing and cached = false, whatever jobs were in flight
\* when the clear was handled.
C13_InvalidateForcesReprocess ==
    [][ ( /\ IsSubmitStep
          /\ resp'.request \in ValidBodies
          /\ IdentityKey(resp'.request) \in invalidated
          /\ AllAnswered(resp') )
            => /\ resp'.code = 202
               /\ resp'.body.status = "processing"
               /\ resp'.body.cached = FALSE ]_vars

-----------------------------------------------------------------------------
(* Identity Key *)

\* normalize: the four identity fields trimmed and lower-cased, an absent one ""
normalize(candidate_profile) ==
    [f \in IdentityFields |->
        Str(str_lower(str_strip(dict_get_default(candidate_profile, f, Str(<<>>)).s)))]

\* C14: for identity inputs whose four fields are strings or absent,
\* generate_cache_key(I) is a key, it equals generate_cache_key(normalize(I)),
\* and two inputs with the same normalized fields have the same key.
C14_KeyInvariantUnderNormalization ==
    \A i \in JobIds :
        local[i] # NoJob =>
            /\ ~local[i].raised
            /\ local[i] = generate_cache_key(normalize(args[i].data))
            /\ \A j \in JobIds :
                  (local[j] # NoJob /\ normalize(args[j].data) = normalize(args[i].data))
                      => local[j].value = local[i].value

\* two inputs that differ in case, spacing and absent-versus-empty fields got
\* the same key
C14_Witness ==
    /\ args[1].data = identity_input(Str(<<SPACE, "ann", SPACE>>), Str(<<"LEE", SPACE, SPACE>>),
                                     Absent, Str(<<"Ann@X.com">>))
    /\ args[2].data # args[1].data
    /\ normalize(args[2].data) = normalize(args[1].data)
    /\ local[1] # NoJob /\ local[2] # NoJob
    /\ local[1].value = local[2].value

\* ---------------------------------------------------------------------------
\* the get helper that reads what a set helper wrote
GetterOf == [set_cached_url |-> "get_cached_url", set_cached_search |-> "get_cached_search",
             set_cached_result |-> "get_cached_result"]

\* this step is a get, answered by the store, that immediately follows an
\* accepted set of the same namespace on the same key
SetThenGet ==
    /\ resp.op \in DOMAIN GetterOf
    /\ resp.ok
    /\ resp'.op = GetterOf[resp.op]
    /\ resp'.ok
    /\ resp'.key = resp.key

\* C15: with the store answering, a get that immediately follows a set on the
\* same key returns exactly the value that was set, in each of the three cache
\* namespaces (URL content, search results, final results) and for every value.
C15_SetThenGetReturnsValue == [][SetThenGet => resp'.result = resp.value]_vars

\* ---------------------------------------------------------------------------
CacheGets == {"get_cached_url", "get_cached_search", "get_cached_result", "get_job_status"}

CacheSets == {"set_cached_url", "set_cached_search", "set_cached_result", "set_job_status"}

EmptyStore == [k \in {} |-> None]

\* what the fetcher returns for the call recorded in r when nothing is cached
\* and the store answers
content_on_miss(r) ==
    crawl_url_with_fallback(EmptyStore, r.url, TRUE, TRUE, TRUE, r.providers).content

\* the step is a cache helper or the return of a fetch whose store calls all
\* raised, and it degraded: a get returned None, a set returned False and
\* wrote nothing, the fetch returned what it returns on a miss and wrote
\* nothing
DegradedStep ==
    /\ resp'.op \in CacheGets => resp'.result = None
    /\ resp'.op \in CacheSets => resp'.result = FALSE /\ store' = store
    /\ resp'.op = "crawl_url_with_fallback" =>
           resp'.result = content_on_miss(resp') /\ store' = store

\* thread j is past the lookup of a fetch that the store did not answer: it
\* went on to the providers and holds what a fetch gets on a miss
DegradedLookup(j) ==
    /\ work'[j].result = content_on_miss(work'[j])
    /\ \E k \in 1..Len(work'[j].calls) : work'[j].calls[k].call = "firecrawl.scrape"
    /\ store' = store

\* C16: when the store is unreachable every cache operation degrades instead of
\* raising: each get (URL, search, result, job status) returns absent, each set
\* returns failure and leaves the store as it was, and the fetch of the pipeline
\* goes on to the providers and returns what it returns on a cache miss.
C16_StoreFailureDegrades ==
    [][/\ (resp' # NoResp /\ ~resp'.ok) => DegradedStep
       /\ \A j \in JobIds :
             (work[j] = NoJob /\ work'[j] # NoJob /\ ~work'[j].ok) => DegradedLookup(j)]_vars

\* a fetch whose store calls all raised has returned the provider's text
C16_Witness ==
    /\ resp.op = "crawl_url_with_fallback"
    /\ ~resp.ok
    /\ resp.result = Str(PageText)
    /\ resp.calls = <<Call("get_cached_url", FALSE), Call("firecrawl.scrape", TRUE),
                      Call("set_cached_url", FALSE)>>
    /\ generate_url_cache_key(resp.url) \notin DOMAIN store

\* ---------------------------------------------------------------------------
\* in this step a thread calls the fetcher: it makes the lookup and, on a miss,
\* asks the providers; the call returns at once, or the thread holds the
\* content it is about to write
IsFetchLookup ==
    \/ resp' # NoResp /\ resp'.op = "crawl_url_with_fallback" /\ work' = work
    \/ \E j \in JobIds : work[j] = NoJob /\ work'[j] # NoJob

\* the call of that step: its arguments, the content in hand, the calls made
Fetched ==
    IF resp' # NoResp THEN resp' ELSE work'[CHOOSE j \in JobIds : work'[j] # work[j]]

\* in this step thread j makes the write of its fetch and returns
IsFetchWrite(j) ==
    /\ work[j] # NoJob /\ work[j].op = "crawl_url_with_fallback"
    /\ work'[j] = NoJob

\* the call recorded in r found nothing in the URL cache of store s
CacheMiss(s, r) == ~(r.use_cache /\ truthy(get_cached_url(s, with_scheme(r.url), r.ok)))

\* every provider the call recorded in r could reach raised or gave nothing usable
NothingUsable(r) ==
    /\ r.providers.firecrawl # "text"
    /\ r.providers.exa # "text"
    /\ is_twitter_url(with_scheme(r.url)) =>
           r.providers.twitter_fetch # "tweets" /\ r.providers.dynamodb_tweets # "tweets"

\* C17: a fetch that finds nothing cached and whose every applicable provider
\* fails or returns nothing usable returns the empty string and writes nothing
\* to the URL cache (it returns with no write to come), a microblogging URL
\* with both platform endpoints failing included.  (A null handed back by the
\* primary provider is counted as empty.)
C17_AllFailReturnsEmpty ==
    [][IsFetchLookup /\ CacheMiss(store, Fetched) /\ NothingUsable(Fetched)
         => ~truthy(Fetched.result) /\ resp' # NoResp /\ store' = store]_vars

\* ---------------------------------------------------------------------------
\* the URL of call r goes to the generic providers (neither skipped nor microblogging)
GenericUrl(r) == ~is_linkedin_url(with_scheme(r.url)) /\ ~is_twitter_url(with_scheme(r.url))

\* the primary provider raised or returned no content, the secondary returned text
PrimaryFailsSecondaryAnswers(r) ==
    /\ r.providers.firecrawl \in {"raise", "none", "null", "empty"}
    /\ r.providers.exa = "text"

\* position of the first call named name in calls, 0 when there is none
CallIndex(calls, name) ==
    IF \E i \in 1..Len(calls) : calls[i].call = name
    THEN CHOOSE i \in 1..Len(calls) :
             calls[i].call = name /\ \A k \in 1..(i - 1) : calls[k].call # name
    ELSE 0

ProviderCalls == {"twitter-fetch", "dynamodb-tweets", "firecrawl.scrape", "exa.get_contents"}

\* the fetch of this step fell back: it holds the secondary's text after
\* calling the primary and then the secondary, and it is about to write the
\* text to the URL cache when the cache is in use
FellBack ==
    /\ Fetched.result = Str(ExaText)
    /\ 0 < CallIndex(Fetched.calls, "firecrawl.scrape")
    /\ CallIndex(Fetched.calls, "firecrawl.scrape") < CallIndex(Fetched.calls, "exa.get_contents")
    /\ Fetched.use_cache <=> resp' = NoResp

\* the fetch of this step was answered from the entry the cache held, without
\* any provider call
ServedFromCache ==
    /\ resp' # NoResp
    /\ resp'.result = get_cached_url(store, with_scheme(resp'.url), TRUE)
    /\ \A i \in 1..Len(resp'.calls) : resp'.calls[i].call \notin ProviderCalls
    /\ store' = store

\* thread j returns the text it held, after writing it to the URL cache when
\* the store answers
WrittenThenReturned(j) ==
    /\ resp'.result = work[j].result
    /\ resp'.calls = Append(work[j].calls, Call("set_cached_url", work[j].ok))
    /\ work[j].ok => get_cached_url(store', with_scheme(work[j].url), TRUE) = work[j].result

\* C18: for a generic URL with nothing cached, a failing primary provider
\* (raising or returning no content) and a secondary returning text t, the
\* fetch returns t after trying the primary before the secondary and caches t
\* before it returns; and every fetch of a generic URL whose lookup comes
\* while the cache holds an entry for it (within the TTL, store answering)
\* returns that entry without calling a provider.
C18_FallbackThenCacheHit ==
    [][/\ (IsFetchLookup /\ GenericUrl(Fetched)) =>
             /\ (CacheMiss(store, Fetched) /\ PrimaryFailsSecondaryAnswers(Fetched) => FellBack)
             /\ (~CacheMiss(store, Fetched) => ServedFromCache)
       /\ \A j \in JobIds : IsFetchWrite(j) => WrittenThenReturned(j)]_vars

\* a fetch of a generic URL whose primary provider would answer was served the
\* secondary's text from the cache, where only an earlier fallback can have put it
C18_Witness ==
    /\ resp.op = "crawl_url_with_fallback"
    /\ GenericUrl(resp)
    /\ resp.providers.firecrawl = "text"
    /\ resp.result = Str(ExaText)
    /\ resp.calls = <<Call("get_cached_url", TRUE)>>

\* ---------------------------------------------------------------------------
\* C19: a fetch of a URL matching the LinkedIn pattern returns the empty string
\* with no call at all (no provider call, no read of the URL cache and no
\* write to come) and leaves the store as it was, whatever the URL cache holds
\* for that URL.
C19_LinkedinSkipped ==
    [][IsFetchLookup /\ is_linkedin_url(with_scheme(Fetched.url)) =>
         /\ resp' # NoResp
         /\ resp'.result = Str(<<>>)
         /\ resp'.calls = <<>>
         /\ store' = store]_vars

\* a LinkedIn URL was fetched with the cache in use, the store answering, the
\* providers ready to answer and an entry for that very URL in the URL cache
C19_Witness ==
    /\ resp.op = "crawl_url_with_fallback"
    /\ is_linkedin_url(with_scheme(resp.url))
    /\ resp.use_cache /\ resp.ok
    /\ resp.providers.firecrawl = "text"
    /\ truthy(get_cached_url(store, with_scheme(resp.url), TRUE))
    /\ resp.result = Str(<<>>)

\* ---------------------------------------------------------------------------
\* the thread of job j is past its gathering of content (lines 145-185)
HasRun(j) == pc[j] \in {"cache", "complete", "done"}

\* no two items of content carry the same URL
OneItemPerUrl(content) ==
    \A a \in 1..Len(content), b \in 1..Len(content) : content[a].url = content[b].url => a = b

\* C20: the content accumulated for one job, the fetched items followed by the
\* searched items, holds at most one item per URL: a URL captured by direct
\* fetch is not added again from the search results.
C20_AccumulatedOnePerUrl ==
    \A j \in JobIds : HasRun(j) => OneItemPerUrl(accumulated_content(work[j]))

\* ---------------------------------------------------------------------------
TerminalStatuses == {"complete", "error"}

\* C22: once the record of a job is complete or error, no further
\* set_job_status call on that job_id changes what is stored: of two writes on
\* the same job_id the one that made the record terminal decides the stored
\* status, the later one has no effect.
C22_TerminalRecordIsFinal ==
    [][StoredStatus(1) \in TerminalStatuses => store'[job_key(1)] = store[job_key(1)]]_vars

\* ---------------------------------------------------------------------------
\* the terminal status writes issued so far for job j (refused ones included)
TerminalWrites(h) ==
    {i \in 1..Len(h) : h[i].op = "set_job_status" /\ h[i].status \in TerminalStatuses}

\* this step issues a write that moves the record of job j out of processing
IssuesTerminalWrite(j) == TerminalWrites(hist'[j]) # TerminalWrites(hist[j])

\* this step replaces or restores the stored record of the already created job j
RecordWritten(j) ==
    /\ pc[j] # "none"
    /\ job_key(j) \in DOMAIN store'
    /\ (job_key(j) \in DOMAIN store => store'[job_key(j)] # store[job_key(j)])

\* this step is a step of the background thread of job j and of nothing else:
\* no request handler and no other thread moves
OwnThreadStep(j) ==
    /\ pc[j] \in {"complete", "error"} /\ pc'[j] = "done"
    /\ resp' = resp /\ handler' = handler
    /\ \A k \in JobIds \ {j} : pc'[k] = pc[k]

\* C23: for every job_id, a write on its record after the creation is a write
\* out of processing issued by the background thread submit started for that
\* job_id; that thread issues at most one such write; no request handler and
\* no thread of another job writes to the record.
C23_OnlyOwnerWritesOnce ==
    [][\A j \in JobIds :
          /\ RecordWritten(j) => IssuesTerminalWrite(j)
          /\ IssuesTerminalWrite(j) => OwnThreadStep(j)
          /\ Cardinality(TerminalWrites(hist'[j])) <= 1]_vars

\* two jobs were started and both threads have written their own terminal status
C23_Witness ==
    /\ \A j \in {1, 2} : pc[j] = "done" /\ StoredStatus(j) \in TerminalStatuses
    /\ \A j \in {1, 2} : Cardinality(TerminalWrites(hist[j])) = 1

\* ---------------------------------------------------------------------------
\* an earlier submission of the identity under key drew job j, and no job
\* has written the Result Cache under that key
InFlightUncached(j, key) ==
    /\ args[j] # NoJob
    /\ args[j].cache_key = key
    /\ key \notin DOMAIN store

\* the step is the Result Cache lookup of a valid submission
IsLookup == next_id' # next_id

\* the body of that submission
LookupRequest == IF resp' # NoResp THEN resp'.request ELSE JDict(args'[next_id].data)

\* the store answered the probe and the lookup of that submission
LookupAnswered == IF resp' # NoResp THEN AllAnswered(resp') ELSE AllAnswered(handler'[next_id])

\* C24: a valid submission whose lookup comes (the store answering) while an
\* earlier job of the same identity exists and the Result Cache holds nothing
\* for the identity is not de-duplicated: it is not answered from the cache
\* but draws a job_id no earlier job has, with its own arguments; its handler
\* then writes its own processing record, starts its own thread and answers
\* 202 with that job_id, and each of these steps leaves the thread, the
\* arguments and the record of every other job as they are.
C24_ConcurrentDuplicatesBothRun ==
    [][/\ (IsLookup /\ resp' = NoResp) =>
             /\ IsSubmitMiss(next_id)
             /\ args[next_id] = NoJob /\ args'[next_id] # NoJob
       /\ ( /\ IsLookup
            /\ LookupAnswered
            /\ \E j \in JobIds : InFlightUncached(j, IdentityKey(LookupRequest)) )
          => /\ resp' = NoResp
             /\ IsSubmitMiss(next_id)
             /\ pc[next_id] = "none" /\ args[next_id] = NoJob /\ ~HasRecord(next_id)
             /\ args'[next_id].cache_key = IdentityKey(LookupRequest)
       /\ \A k \in JobIds :
             /\ IsSubmitMiss(k) => k = next_id
             /\ (IsSubmitMiss(k) \/ handler'[k] # handler[k]) =>
                   \A j \in JobIds \ {k} :
                       /\ pc'[j] = pc[j] /\ args'[j] = args[j] /\ handler'[j] = handler[j]
                       /\ HasRecord(j) => HasRecord(j)' /\ store'[job_key(j)] = store[job_key(j)]
             /\ (IsProcessingWrite(k) /\ LastCall(k)'.ok) => StoredStatus(k)' = "processing"
             /\ IsThreadStart(k) => handler[k] # NoJob /\ handler[k].at = "thread_start"
             /\ IsAccept(k) => resp'.code = 202 /\ resp'.body.job_id = k]_vars

\* two jobs of one identity, the second drawn before the first had written the
\* Result Cache, have each been answered 202, have each their own record and
\* have each run the pipeline to the end and written complete
C24_Witness ==
    /\ pc[1] = "done" /\ pc[2] = "done"
    /\ handler[1] = NoJob /\ handler[2] = NoJob
    /\ args[1].cache_key = args[2].cache_key
    /\ \A j \in {1, 2} : StoredStatus(j) = "complete" /\ Len(hist[j]) = 4

\* ---------------------------------------------------------------------------
\* the calls the submit handler may make: the probe, the Result Cache lookup
\* and the job-record write, all on the cache store
StoreCalls == {"ping", "get", "set"}

\* this step runs a part of the pipeline of a job (document fetch, page
\* fetches, searches and AI calls happen here): what the thread holds changes
PipelineRuns == local' # local \/ work' # work

\* the step is a step of a submit handler
IsHandlerStep == IsSubmitStep \/ handler' # handler

PipelineStarts == {"start", "crawl", "search", "github"}

\* C25: the submit request performs no provider or AI call: the calls it makes
\* are the store probe, the Result Cache lookup and the job-record write, it
\* runs no part of a pipeline (a thread it starts is left at its start), and a
\* pipeline runs only in a step of a background thread, in which no request
\* handler moves.
C25_RequestPathMakesNoProviderCall ==
    [][ /\ IsSubmitStep =>
              \A i \in 1..Len(resp'.calls) : resp'.calls[i].call \in StoreCalls
        /\ IsHandlerStep =>
              /\ ~PipelineRuns
              /\ \A j \in JobIds : pc'[j] # pc[j] => pc[j] = "none" /\ pc'[j] = "start"
        /\ PipelineRuns =>
              /\ resp' = resp /\ handler' = handler
              /\ \E j \in JobIds : pc[j] \in PipelineStarts /\ pc'[j] # "start" ]_vars

\* a submission was answered 202 and the pipeline of the job it started has not run
C25_Witness ==
    /\ resp.op = "process_profile"
    /\ resp.code = 202
    /\ pc[resp.body.job_id] = "start"
    /\ local[resp.body.job_id] = NoJob
    /\ work[resp.body.job_id] = NoJob

\* ---------------------------------------------------------------------------
\* one of the three structured AI calls replies with text that does not parse
\* as JSON, or with JSON of another shape than the call site expects
MalformedAiOutput(env) ==
    \/ env.resume_ai \in {"raise", "list"}
    \/ env.queries_ai \in {"raise", "dict"}
    \/ env.enrich_ai \in {"raise", "empty_text", "list"}

\* C26: malformed structured output of the AI collaborator (invalid JSON, or
\* valid JSON of the wrong shape) is replaced by an empty default at the call
\* site of resume-link extraction, query generation and schema enrichment, so
\* a job whose AI output is malformed never takes the error path and never
\* has the status error.
C26_MalformedAiNeverErrors ==
    \A j \in JobIds : \A env \in stub :
        MalformedAiOutput(env) =>
            /\ pc[j] # "error"
            /\ StoredStatus(j) # "error"

\* ---------------------------------------------------------------------------
\* in this step a call of the search aggregator returns, leaving its record in resp
IsSearchStep == resp' # NoResp /\ resp'.op = "search_for_person_online"

\* thread j is inside a call of the search aggregator
Searching(j) == work[j] # NoJob /\ work[j].op = "search_for_person_online"

\* in this step thread j makes the lookup for the query it is at and, on a
\* miss, asks the provider
IsSearchLookup(j) == Searching(j) /\ work[j].pending = None /\ work'[j] # work[j]

\* in this step thread j writes the list that waits to the search cache and
\* goes through it
IsSearchWrite(j) == Searching(j) /\ work[j].pending # None /\ work'[j] # work[j]

\* the place of the query thread j is at
PlaceOf(j) == work[j].i + 1

\* the call of thread j after this step: what the thread holds, or what the
\* call returned
SearchedBy(j) == IF work'[j] # NoJob THEN work'[j] ELSE resp'

\* the places of the list of the call recorded in r that the loop visits
Searched(r) == 1..(IF Len(r.queries) < MAX_QUERIES THEN Len(r.queries) ELSE MAX_QUERIES)

\* the calls recorded in r for the query at place i, in order
CallsAt(r, i) == SelectSeq(r.calls, LAMBDA c : c.at = i)

\* the search cache key of the query at place i of the call recorded in r
SearchKeyAt(r, i) == generate_search_cache_key(r.queries[i], max_results_per_query)

\* the provider has returned normally for the query thread j is at, and the
\* thread holds its list, of which nothing is used yet
HoldsProviderList(j) ==
    /\ work'[j] # NoJob
    /\ work'[j].pending = JList(provider_results(work[j].provider[PlaceOf(j)]))
    /\ work'[j].i = work[j].i
    /\ work'[j].found = work[j].found
    /\ CallsAt(work'[j], PlaceOf(j)) =
           calls_at(<<SearchCall("get_cached_search", TRUE, work[j].queries[PlaceOf(j)]),
                      SearchCall("firecrawl.search", TRUE, work[j].queries[PlaceOf(j)])>>,
                    PlaceOf(j))

\* thread j writes the list it holds under (query, limit) for CACHE_TTL, and
\* only then goes through it
CachedAfterProvider(j) ==
    /\ CallsAt(SearchedBy(j), PlaceOf(j)) =
           calls_at(<<SearchCall("get_cached_search", TRUE, work[j].queries[PlaceOf(j)]),
                      SearchCall("firecrawl.search", TRUE, work[j].queries[PlaceOf(j)]),
                      SearchCall("set_cached_search", TRUE, work[j].queries[PlaceOf(j)])>>,
                    PlaceOf(j))
    /\ store' = setex(store, SearchKeyAt(work[j], PlaceOf(j)), CACHE_TTL,
                      json_dumps(JList(provider_results(work[j].provider[PlaceOf(j)]))))
    /\ SearchedBy(j).yielded[PlaceOf(j)] = provider_results(work[j].provider[PlaceOf(j)])

\* the query at place i was answered by the lookup alone
SearchCacheHit(r, i) ==
    CallsAt(r, i) = calls_at(<<SearchCall("get_cached_search", TRUE, r.queries[i])>>, i)

\* the query thread j is at is answered from the entry of the store, which
\* stays as it is
AnsweredFromCache(j) ==
    /\ SearchCacheHit(SearchedBy(j), PlaceOf(j))
    /\ SearchedBy(j).yielded[PlaceOf(j)] =
           json_loads(store[SearchKeyAt(work[j], PlaceOf(j))].value).v
    /\ store' = store

\* C21: with the search cache in use and the store answering, a query whose
\* provider call returns normally has the returned list (an empty one included)
\* written under (query, limit) right after the provider call, before any
\* result is used; and a query whose normalized text and limit have an entry
\* in the store at its lookup (within the TTL), an empty list included, is
\* answered from that entry with no provider call.
C21_SearchCachedThenHit ==
    [][\A j \in JobIds :
          /\ (IsSearchLookup(j) /\ work[j].use_cache /\ work[j].ok) =>
                IF SearchKeyAt(work[j], PlaceOf(j)) \in DOMAIN store
                THEN AnsweredFromCache(j)
                ELSE work[j].provider[PlaceOf(j)] # "raise" => HoldsProviderList(j)
          /\ (IsSearchWrite(j) /\ work[j].ok) => CachedAfterProvider(j)
          /\ ( /\ IsSearchLookup(j) /\ work[j].use_cache /\ work[j].ok
               /\ Len(work[j].queries) = 1
               /\ SearchKeyAt(work[j], 1) \in DOMAIN store ) =>
                /\ IsSearchStep
                /\ resp'.results =
                       collect_results(json_loads(store[SearchKeyAt(work[j], 1)].value).v,
                                       {}, <<>>).all_results]_vars

\* a search for "Ann blog " was answered from the empty list an earlier search
\* for "ann blog" had cached, although the provider now has results
C21_Witness ==
    /\ resp.op = "search_for_person_online"
    /\ resp.queries = <<<<"Ann", SPACE, "blog", SPACE>>>>
    /\ resp.provider[1] = "items"
    /\ SearchCacheHit(resp, 1) /\ Len(resp.calls) = 1
    /\ resp.results = <<>>
    /\ json_loads(store[SearchKeyAt(resp, 1)].value) = JList(<<>>)

\* ---------------------------------------------------------------------------
\* the search of the query at place i of the call recorded in r raised
SearchRaised(r, i) ==
    \E k \in 1..Len(r.calls) :
        r.calls[k] = calls_at(<<SearchCall("firecrawl.search", FALSE, r.queries[i])>>, i)[1]

\* the lists given by the queries at places i.. of the call, one after the other
RECURSIVE YieldedFrom(_, _)
YieldedFrom(r, i) ==
    IF i > Len(r.yielded) THEN <<>> ELSE r.yielded[i] \o YieldedFrom(r, i + 1)

\* the provider was asked for the query at place i of the call recorded in r
ProviderAsked(r, i) ==
    \E k \in 1..Len(r.calls) : r.calls[k].at = i /\ r.calls[k].call = "firecrawl.search"

\* what the query thread j is at gives to the call: nothing when its search
\* raised, the provider's list when the provider was asked, the cached list
\* otherwise
YieldsItsList(j) ==
    work'[j] # work[j] /\ (work'[j] = NoJob \/ work'[j].pending = None) =>
        /\ Len(SearchedBy(j).yielded) = PlaceOf(j)
        /\ SearchedBy(j).yielded[PlaceOf(j)] =
              IF SearchRaised(SearchedBy(j), PlaceOf(j)) THEN <<>>
              ELSE IF ProviderAsked(SearchedBy(j), PlaceOf(j))
              THEN provider_results(work[j].provider[PlaceOf(j)])
              ELSE json_loads(store[SearchKeyAt(work[j], PlaceOf(j))].value).v

\* C27: whatever the store does and whichever queries raise, a call of
\* search_for_person_online attempts every query among the first six of its
\* list (a lookup or a provider call is made for each, also after a query that
\* raised) and returns, as a list, the results collected from the queries
\* that did not raise.
C27_FailingQueryIsolated ==
    [][/\ \A j \in JobIds :
             /\ IsSearchLookup(j) =>
                   /\ CallsAt(SearchedBy(j), PlaceOf(j)) # <<>>
                   /\ ( \/ ~work[j].use_cache \/ ~work[j].ok
                        \/ SearchKeyAt(work[j], PlaceOf(j)) \notin DOMAIN store )
                         => ProviderAsked(SearchedBy(j), PlaceOf(j))
             /\ Searching(j) => YieldsItsList(j)
       /\ IsSearchStep =>
             /\ \A i \in Searched(resp') : CallsAt(resp', i) # <<>>
             /\ Len(resp'.yielded) = Cardinality(Searched(resp'))
             /\ resp'.results \in Seq({result_item(x) : x \in {RawBlog, RawFound}})
             /\ resp'.results = collect_results(YieldedFrom(resp', 1), {}, <<>>).all_results]_vars

\* the second of seven queries raised, the sixth was still sent to the
\* provider, and results of the other queries were returned
C27_Witness ==
    /\ resp.op = "search_for_person_online"
    /\ Len(resp.queries) = MaxQueryListLen
    /\ ~resp.use_cache
    /\ SearchRaised(resp, 2)
    /\ CallsAt(resp, MAX_QUERIES) =
           calls_at(<<SearchCall("firecrawl.search", TRUE, resp.queries[MAX_QUERIES])>>, MAX_QUERIES)
    /\ Len(resp.results) = 2

\* ---------------------------------------------------------------------------
\* the provider calls recorded in r for the query at place i
ProviderCallsAt(r, i) ==
    {k \in 1..Len(r.calls) : r.calls[k].at = i /\ r.calls[k].call = "firecrawl.search"}

\* C28: in every call of search_for_person_online each recorded call belongs
\* to one of the first six places of the list and carries the query of that
\* place, the calls follow the order of the list, the provider is called at
\* most once for a place and not at all when the lookup for it answered, and
\* nothing is looked up, asked or cached for a query after the sixth.
C28_AtMostSixQueriesInOrder ==
    [][/\ \A j \in JobIds :
             /\ (Searching(j) /\ work'[j] # work[j]) =>
                   /\ PlaceOf(j) \in Searched(work[j])
                   /\ \A i \in (MAX_QUERIES + 1)..Len(work[j].queries) :
                         SearchKeyAt(work[j], i) \in DOMAIN store'
                             => SearchKeyAt(work[j], i) \in DOMAIN store
             /\ ( /\ IsSearchLookup(j) /\ work[j].use_cache /\ work[j].ok
                  /\ SearchKeyAt(work[j], PlaceOf(j)) \in DOMAIN store )
                   => ProviderCallsAt(SearchedBy(j), PlaceOf(j)) = {}
       /\ IsSearchStep =>
             /\ \A k \in 1..Len(resp'.calls) :
                   /\ resp'.calls[k].at \in Searched(resp')
                   /\ resp'.calls[k].query = resp'.queries[resp'.calls[k].at]
                   /\ k > 1 => resp'.calls[k - 1].at <= resp'.calls[k].at
             /\ \A i \in Searched(resp') : Cardinality(ProviderCallsAt(resp', i)) <= 1]_vars

\* a call with seven queries and no cache asked the provider six times, once
\* for each of the first six queries
C28_Witness ==
    /\ resp.op = "search_for_person_online"
    /\ Len(resp.queries) = MAX_QUERIES + 1
    /\ ~resp.use_cache
    /\ Len(resp.calls) = MAX_QUERIES
    /\ \A i \in 1..MAX_QUERIES :
          resp.calls[i] = calls_at(<<SearchCall("firecrawl.search", TRUE, resp.queries[i])>>, i)[1]

\* ---------------------------------------------------------------------------
\* the place of the first item of the list ys that has the URL url
FirstWithUrl(ys, url) ==
    CHOOSE k \in 1..Len(ys) : ys[k].url = url /\ \A m \in 1..(k - 1) : ys[m].url # url

\* the items of results are built from first occurrences of their URLs in ys
\* and stand in the order of these occurrences
FirstOccurrencesInOrder(results, ys) ==
    /\ \A a \in 1..Len(results) :
          /\ \E k \in 1..Len(ys) : ys[k].url = results[a].url
          /\ results[a] = result_item(ys[FirstWithUrl(ys, results[a].url)])
    /\ \A a, b \in 1..Len(results) :
          a < b => FirstWithUrl(ys, results[a].url) < FirstWithUrl(ys, results[b].url)

\* C29: the list returned by a call of search_for_person_online has no two
\* items with the same URL and no item with an empty URL, each item is built
\* from the first occurrence of its URL among the lists the provider or the
\* cache returned, taken query by query, and the items keep the order of
\* these occurrences.
C29_ResultsUniqueInOrder ==
    [][IsSearchStep =>
         /\ \A a, b \in 1..Len(resp'.results) :
               a # b => resp'.results[a].url # resp'.results[b].url
         /\ \A a \in 1..Len(resp'.results) : resp'.results[a].url # <<>>
         /\ FirstOccurrencesInOrder(resp'.results, YieldedFrom(resp', 1))]_vars

\* two queries each gave the list with an item without URL and the same URL
\* twice; the call returned that URL once, with the title of its first item,
\* followed by the blog
C29_Witness ==
    /\ resp.op = "search_for_person_online"
    /\ Len(resp.queries) = 2
    /\ resp.yielded = <<provider_results("mixed"), provider_results("mixed")>>
    /\ resp.results = <<result_item(RawFound), result_item(RawBlog)>>

\* ---------------------------------------------------------------------------
\* the number of places of the list xs that hold x
Occurrences(xs, x) == Cardinality({k \in 1..Len(xs) : xs[k] = x})

\* the place of the first x in the list xs
FirstPlace(xs, x) == CHOOSE k \in 1..Len(xs) : xs[k] = x /\ \A m \in 1..(k - 1) : xs[m] # x

\* the items kept for the fetches fs, one after the other
RECURSIVE ItemsOf(_)
ItemsOf(fs) ==
    IF fs = <<>> THEN <<>>
    ELSE crawled_item(Head(fs).url, Head(fs).content) \o ItemsOf(Tail(fs))

\* the links handed to the fetcher by the call recorded in r, in order
FetchedLinks(r) == [k \in 1..Len(r.fetched) |-> r.fetched[k].url]

\* in this step thread j, inside crawl_all_links, hands a link to the fetcher
IsCrawlAllFetch(j) ==
    /\ work[j] # NoJob /\ work[j].op = "crawl_all_links" /\ work[j].pending = None
    /\ work'[j] # work[j]

\* C30: crawl_all_links hands every URL of its input (a link that is not
\* empty) to the fetcher exactly once, at its first occurrence and in the
\* order of the first occurrences, and its output holds, in that order, one
\* item for each fetch that returned content: every item has non-empty
\* content, and no URL appears twice.
C30_CrawlAllOncePerUrl ==
    [][/\ \A j \in JobIds :
             IsCrawlAllFetch(j) =>
                 /\ work[j].links[work[j].k + 1] # <<>>
                 /\ \A k \in 1..Len(work[j].fetched) :
                       work[j].fetched[k].url # work[j].links[work[j].k + 1]
       /\ (resp' # NoResp /\ resp'.op = "crawl_all_links") =>
             /\ \A k \in 1..Len(resp'.links) :
                   resp'.links[k] # <<>> => Occurrences(FetchedLinks(resp'), resp'.links[k]) = 1
             /\ \A k \in 1..Len(resp'.fetched) :
                   /\ resp'.fetched[k].url # <<>>
                   /\ Occurrences(resp'.links, resp'.fetched[k].url) >= 1
             /\ \A a, b \in 1..Len(resp'.fetched) :
                   a < b => FirstPlace(resp'.links, resp'.fetched[a].url)
                              < FirstPlace(resp'.links, resp'.fetched[b].url)
             /\ resp'.result = ItemsOf(resp'.fetched)
             /\ \A a \in 1..Len(resp'.result) :
                   /\ resp'.result[a].content # <<>>
                   /\ \A b \in 1..Len(resp'.result) :
                         a < b => /\ resp'.result[a].url # resp'.result[b].url
                                  /\ FirstPlace(resp'.links, resp'.result[a].url)
                                        < FirstPlace(resp'.links, resp'.result[b].url)]_vars

\* the blog twice around a LinkedIn URL: two fetches, and one item, since the
\* fetch of the LinkedIn URL returned nothing
C30_Witness ==
    /\ resp.op = "crawl_all_links"
    /\ resp.links = <<BlogUrl, LinkedinUrl, BlogUrl>>
    /\ FetchedLinks(resp) = <<BlogUrl, LinkedinUrl>>
    /\ Len(resp.result) = 1 /\ resp.result[1].url = BlogUrl

\* ---------------------------------------------------------------------------
\* the URL cache key of the fetch recorded in r
UrlKeyOf(r) == generate_url_cache_key(with_scheme(r.url))

\* the texts the platform scraper, the primary and the secondary provider hand
\* to the fetcher (the platform scraper's text for a profile without tweets
\* included)
ProvidedTexts ==
    {PageText, ExaText}
    \cup {build_full_text(extract_twitter_username(with_scheme(u))) : u \in FetchUrls}
    \cup {no_tweets_text(extract_twitter_username(with_scheme(u))) : u \in FetchUrls}

\* the fetch recorded in r has a non-empty text in hand that a provider gave
\* it, with the cache in use, and has not called set_cached_url
HoldsProvidedText(r) ==
    /\ r.use_cache
    /\ truthy(r.result) /\ r.result.s \in ProvidedTexts
    /\ \A k \in 1..Len(r.calls) : r.calls[k].call # "set_cached_url"
    /\ \E k \in 1..Len(r.calls) : r.calls[k].call \in ProviderCalls

\* the fetch recorded in r called set_cached_url, as the last of its calls and
\* after a provider call, with the non-empty text it returned
WroteAfterProvider(r) ==
    /\ r.use_cache
    /\ truthy(r.result) /\ r.result.s \in ProvidedTexts
    /\ r.calls[Len(r.calls)].call = "set_cached_url"
    /\ \A k \in 1..(Len(r.calls) - 1) : r.calls[k].call # "set_cached_url"
    /\ \E k \in 1..(Len(r.calls) - 1) : r.calls[k].call \in ProviderCalls

NoEmptyUrlEntry ==
    \A key \in DOMAIN store : key[1] = KEY_PREFIX_URL => store[key].value # <<>>

\* C31: no entry of the URL cache holds the empty string; a fetch calls
\* set_cached_url only with the non-empty text it then returns, after a
\* provider call and as its last call, so that the store it changes holds that
\* text under the key of the URL; and a fetch with use_cache = False makes no
\* store call and leaves the store as it was.
C31_UrlCacheNeverEmpty ==
    /\ []NoEmptyUrlEntry
    /\ [][/\ IsFetchLookup =>
                /\ store' = store
                /\ IF resp' = NoResp
                   THEN HoldsProvidedText(Fetched)
                   ELSE \A k \in 1..Len(resp'.calls) : resp'.calls[k].call # "set_cached_url"
                /\ ~Fetched.use_cache =>
                      /\ resp' # NoResp
                      /\ \A k \in 1..Len(resp'.calls) : resp'.calls[k].call \in ProviderCalls
          /\ \A j \in JobIds :
                IsFetchWrite(j) =>
                    /\ HoldsProvidedText(work[j])
                    /\ WroteAfterProvider(resp')
                    /\ resp'.result = work[j].result
                    /\ store' = IF work[j].ok
                                THEN setex(store, UrlKeyOf(work[j]), CACHE_TTL, work[j].result.s)
                                ELSE store]_vars

\* a fetch got the primary provider's text and the URL cache holds it
C31_Witness ==
    /\ resp.op = "crawl_url_with_fallback"
    /\ resp.result = Str(PageText)
    /\ WroteAfterProvider(resp)
    /\ UrlKeyOf(resp) \in DOMAIN store
    /\ store[UrlKeyOf(resp)].value = PageText

\* ---------------------------------------------------------------------------
GenericProviderCalls == {"firecrawl.scrape", "exa.get_contents"}

\* C32: a fetch of a URL matching the twitter / x pattern calls only the
\* platform endpoints (the second only after the first): neither the primary
\* nor the secondary generic provider is called, whatever the platform chain
\* returns or raises.
C32_TwitterNeverGeneric ==
    [][IsFetchLookup /\ is_twitter_url(with_scheme(Fetched.url)) =>
         \A k \in 1..Len(Fetched.calls) : Fetched.calls[k].call \notin GenericProviderCalls]_vars

\* ---------------------------------------------------------------------------
\* the step is a cache clear and leaves its response
IsClearStep == resp' # resp /\ resp'.op = "clear_cache"

\* every entry of s other than the one under key is in t as it was in s
OthersKept(s, t, key) ==
    /\ DOMAIN t \subseteq DOMAIN s
    /\ \A k \in DOMAIN s \ {key} : k \in DOMAIN t /\ t[k] = s[k]

\* C33: a cache clear answered 200 removes the entry cache:<identity-hash> of
\* its input and reports deleted = true exactly when the store held that entry;
\* a clear that is not answered 200 removes nothing; and in either case every
\* other entry (job records, URL entries, search entries, result entries of
\* other identities) stays as it was.
C33_ClearDeletesOnlyItsKey ==
    [][IsClearStep =>
         IF resp'.code = 200
         THEN /\ IdentityKey(resp'.request)[1] = KEY_PREFIX_CACHE
              /\ IdentityKey(resp'.request) \notin DOMAIN store'
              /\ OthersKept(store, store', IdentityKey(resp'.request))
              /\ resp'.body.success
              /\ resp'.body.deleted <=> IdentityKey(resp'.request) \in DOMAIN store
         ELSE store' = store]_vars

\* a clear reported deleted = true while the store keeps a job record, a URL
\* entry, a search entry and the result entry of another identity
C33_Witness ==
    /\ resp.op = "clear_cache" /\ resp.code = 200
    /\ resp.body.deleted
    /\ \A prefix \in {KEY_PREFIX_JOB, KEY_PREFIX_URL, KEY_PREFIX_SEARCH, KEY_PREFIX_CACHE} :
          \E k \in DOMAIN store : k[1] = prefix

\* ---------------------------------------------------------------------------
JobKeys == {k \in DOMAIN store : k[1] = KEY_PREFIX_JOB}

\* every job record has an expiry, at most JOB_TTL away
JobRecordsExpire == \A k \in JobKeys : store[k].ttl \in 1..JOB_TTL

\* C34: every job record in the store has an expiry at most JOB_TTL away;
\* every status write the store accepts (processing, complete or error) leaves
\* the record with the full JOB_TTL, whatever time an earlier record of the
\* job had left; a record is gone once JOB_TTL has passed since its last
\* write; and status answers 404 for a job whose record is gone.
C34_JobRecordsExpire ==
    /\ []JobRecordsExpire
    /\ [][resp'.op = "set_job_status" /\ resp'.ok =>
            /\ job_key(resp'.key) \in DOMAIN store'
            /\ store'[job_key(resp'.key)].ttl = JOB_TTL
            /\ json_loads(store'[job_key(resp'.key)].value).v.status = resp'.value.s[1]]_vars
    /\ [][resp'.op = "elapse" =>
            \A k \in JobKeys :
                IF store[k].ttl <= resp'.seconds THEN k \notin DOMAIN store'
                ELSE store'[k].ttl = store[k].ttl - resp'.seconds]_vars
    /\ [][(resp'.op = "get_profile_status" /\ AllAnswered(resp')
            /\ job_key(resp'.request) \notin DOMAIN store) => resp'.code = 404]_vars

\* a terminal write has just given job 1 the full JOB_TTL while the record of
\* job 2, written half a JOB_TTL ago, has half of it left
C34_Witness ==
    /\ resp.op = "set_job_status" /\ resp.ok /\ resp.key = 1 /\ resp.value = Str(<<"complete">>)
    /\ job_key(1) \in DOMAIN store /\ store[job_key(1)].ttl = JOB_TTL
    /\ job_key(2) \in DOMAIN store /\ store[job_key(2)].ttl = HalfJobTtl

\* ---------------------------------------------------------------------------
\* C35: a submit whose body parses to an object with a non-empty firstName or
\* lastName, made while the store answers every call, is answered 200 or 202,
\* whatever the other identity fields are (absent and null included).
C35_NamedSubmitAccepted ==
    [][ ( /\ IsSubmitStep
          /\ AllAnswered(resp')
          /\ resp'.request.t = "dict"
          /\ ~no_name(resp'.request.v) )
        => resp'.code \in {200, 202} ]_vars

\* ---------------------------------------------------------------------------
\* some status write of job_id was taken by the store
RecordEverWritten(job_id) ==
    \E i \in 1..Len(hist[job_id]) :
        hist[job_id][i].op = "set_job_status" /\ hist[job_id][i].ok

\* C36: a job_id returned with 202 has a job record when the 202 is returned,
\* and status, with the store answering, reports an accepted job as not found
\* only after a record of it was written (and has since expired), also when
\* the store failed between submit's probe and its job-record write.
C36_AcceptedJobHasRecord ==
    /\ (resp.op = "process_profile" /\ resp.code = 202) => HasRecord(resp.body.job_id)
    /\ ( /\ resp.op = "get_profile_status" /\ AllAnswered(resp)
         /\ resp.request \in JobIds /\ Accepted(resp.request)
         /\ resp.code = 404 )
       => RecordEverWritten(resp.request)

\* ---------------------------------------------------------------------------
\* job ids handed out by a submit answered from the Result Cache
HitJobIds == {j \in JobIds : j < next_id /\ args[j] = NoJob}

\* C37: a submit answered 200 from the Result Cache leaves the store exactly as
\* it was (no job record for the job_id it returns, the cache entry with the
\* value and the TTL it had) and starts nothing; and status, with the store
\* answering, answers 404 for such a job_id.
C37_HitLeavesStoreUnchanged ==
    /\ [][IsSubmitStep /\ resp'.code = 200 =>
            /\ store' = store
            /\ resp'.body.job_id \in HitJobIds'
            /\ job_key(resp'.body.job_id) \notin DOMAIN store'
            /\ pc' = pc /\ hist' = hist /\ args' = args]_vars
    /\ []( ( /\ resp.op = "get_profile_status" /\ AllAnswered(resp)
             /\ resp.request \in HitJobIds )
           => resp.code = 404 )

\* status has answered 404 for a job_id that a cached submit returned, while
\* the Result Cache entry is in the store
C37_Witness ==
    /\ resp.op = "get_profile_status" /\ AllAnswered(resp)
    /\ resp.request \in HitJobIds
    /\ resp.code = 404
    /\ CacheKeys # {}

\* ---------------------------------------------------------------------------
\* the step is a Result Cache write of job j that the store took
CacheWriteTaken(j) == hist'[j] = Append(hist[j], CacheWrite(TRUE))

\* the record of job j holds what the thread of j computed from the input of j
OwnResultStored(j) ==
    /\ local[j] # NoJob /\ ~local[j].raised
    /\ JobRecord(j).result = local[j].value
    /\ JobRecord(j).cache_key = args[j].cache_key
    /\ work[j] # NoJob /\ work[j].env \in stub
    /\ local[j] = task_outcome(args[j].data, work[j])

\* C38: the result in a complete job record is the one the thread of that job
\* computed from the input of that job, also while another job of the same
\* identity runs; every Result Cache write the store takes leaves the entry
\* holding the result of the writing job, whatever it held, and nothing else
\* writes an entry: the entry holds the result of the job that wrote last.
C38_OwnResultLastCacheWriteWins ==
    /\ [](\A j \in JobIds : StoredStatus(j) = "complete" => OwnResultStored(j))
    /\ [][\A j \in JobIds : CacheWriteTaken(j) =>
              /\ args[j].cache_key \in DOMAIN store'
              /\ json_loads(store'[args[j].cache_key].value).v = local[j].value]_vars
    /\ [][\A k \in DOMAIN store' :
              (k[1] = KEY_PREFIX_CACHE /\ (k \notin DOMAIN store \/ store'[k] # store[k]))
                  => \E j \in JobIds : args[j] # NoJob /\ args[j].cache_key = k /\ CacheWriteTaken(j)]_vars

\* two jobs of one identity computed different results; each record holds its
\* own, and the cache entry, written by both, holds the result of one of them
C38_Witness ==
    \E j, k \in JobIds :
        /\ j # k
        /\ args[j] # NoJob /\ args[k] # NoJob /\ args[j].cache_key = args[k].cache_key
        /\ StoredStatus(j) = "complete" /\ StoredStatus(k) = "complete"
        /\ JobRecord(j).result # JobRecord(k).result
        /\ JobRecord(j).result = local[j].value /\ JobRecord(k).result = local[k].value
        /\ hist[j][3] = CacheWrite(TRUE) /\ hist[k][3] = CacheWrite(TRUE)
        /\ args[j].cache_key \in CacheKeys
        /\ CachedResult(args[j].cache_key) = local[k].value

\* ---------------------------------------------------------------------------
\* what search_github_for_person may have gathered
GithubFindings == {<<>>, <<result_item(RawGithub)>>}

\* the identity fields of a body, the others left out
identity_part(d) == [f \in DOMAIN d \cap IdentityFields |-> d[f]]

\* the result in response r was computed by job j, started for another body
ComputedForOther(r, j) ==
    /\ args[j] # NoJob /\ args[j].data # r.request.v
    /\ args[j].cache_key = IdentityKey(r.request)
    /\ local[j] # NoJob /\ ~local[j].raised
    /\ r.body.result = local[j].value

\* C39: the Identity Key of a submission is the key of its four identity
\* fields alone, so that a submission finding the entry of its identity in
\* the Result Cache is answered 200 with the stored result, which a job of
\* that identity computed, whatever the other fields of the two bodies are.
C39_KeyFromIdentityFieldsOnly ==
    /\ [][IsSubmitStep /\ resp'.code \in {200, 202} =>
            /\ generate_cache_key(resp'.request.v)
                  = generate_cache_key(identity_part(resp'.request.v))
            /\ resp'.code = 202 =>
                  args'[resp'.body.job_id].cache_key
                      = generate_cache_key(identity_part(resp'.request.v)).value]_vars
    /\ [][IsLookup =>
            IF IdentityKey(LookupRequest) \in DOMAIN store
            THEN /\ resp' # NoResp /\ resp'.code = 200
                 /\ resp'.body.result = CachedResult(IdentityKey(LookupRequest))
                 /\ \E j \in JobIds :
                       /\ args[j] # NoJob /\ args[j].cache_key = IdentityKey(LookupRequest)
                       /\ local[j] # NoJob /\ ~local[j].raised
                       /\ resp'.body.result = local[j].value
            ELSE resp' = NoResp /\ IsSubmitMiss(next_id)]_vars

\* the submission with links, resume and history was answered with the result
\* computed for the bare submission of the same identity, which is not what
\* the pipeline gives for its own body
C39_Witness ==
    /\ resp.op = "process_profile" /\ resp.code = 200
    /\ resp.request = TwinData
    /\ \E j \in JobIds : ComputedForOther(resp, j) /\ args[j].data = MinimalData.v
    /\ \A env \in stub, found \in GithubFindings :
          LET own == task_outcome(TwinData.v, [env |-> env, github |-> [all_results |-> found]])
          IN  own.raised \/ own.value # resp.body.result

\* ---------------------------------------------------------------------------
\* the provider returned normally for the query at place i of the call in r
ProviderAnswered(r, i) ==
    \E k \in 1..Len(r.calls) :
        r.calls[k] = calls_at(<<SearchCall("firecrawl.search", TRUE, r.queries[i])>>, i)[1]

\* C40: a query whose provider call raised is followed by no write to the
\* search cache; an entry of the search cache appears or changes only under
\* the key of a query whose provider call returned normally, with the list
\* that call returned; and a query that has no entry when its turn comes is
\* sent to the provider again.
C40_FailedSearchNotCached ==
    [][/\ \A j \in JobIds :
             /\ (IsSearchLookup(j) /\ work[j].provider[PlaceOf(j)] = "raise") =>
                   /\ work'[j] = NoJob \/ work'[j].pending = None
                   /\ store' = store
             /\ (IsSearchLookup(j) /\ SearchKeyAt(work[j], PlaceOf(j)) \notin DOMAIN store)
                   => ProviderCallsAt(SearchedBy(j), PlaceOf(j)) # {}
       /\ IsSearchStep =>
             \A i \in Searched(resp') :
                 SearchRaised(resp', i) =>
                     \A k \in 1..Len(resp'.calls) :
                         resp'.calls[k].at = i => resp'.calls[k].call # "set_cached_search"
       /\ \A key \in DOMAIN store' :
             (key \notin DOMAIN store \/ store'[key] # store[key]) =>
                 \E j \in JobIds :
                     /\ IsSearchWrite(j)
                     /\ SearchKeyAt(work[j], PlaceOf(j)) = key
                     /\ ProviderAnswered(work[j], PlaceOf(j))
                     /\ json_loads(store'[key].value) =
                            JList(provider_results(work[j].provider[PlaceOf(j)]))]_vars

\* the first query raised and left no entry; the third, the same query, was
\* sent to the provider again and its list is what the cache now holds
C40_Witness ==
    /\ resp.op = "search_for_person_online"
    /\ resp.use_cache /\ resp.ok
    /\ Len(resp.queries) > 2 /\ resp.queries[3] = resp.queries[1]
    /\ SearchRaised(resp, 1)
    /\ ProviderAnswered(resp, 3)
    /\ SearchKeyAt(resp, 1) \in DOMAIN store
    /\ json_loads(store[SearchKeyAt(resp, 1)].value) = JList(provider_results(resp.provider[3]))


====
